---- MODULE Spec2Model ----
(***************************************************************************)
(* Form-fill orchestration of puppeteer-service: the POST /fill-rfq        *)
(* handler (routes/fill-rfq.js), the in-memory idempotency store           *)
(* (services/idempotency.js), the browser registry (services/browser.js),  *)
(* the rate limiter (middleware/rate-limiter.js) and the shutdown path     *)
(* (index.js).                                                             *)
(*                                                                         *)
(* Node runs one handler at a time between two awaits, so one action is    *)
(* one run of a handler from an await resumption to the next await.        *)
(***************************************************************************)
EXTENDS Integers, Sequences, FiniteSets, TLC

(***************************************************************************)
(* Bounds of the model                                                     *)
(***************************************************************************)
\* Handler invocations alive at once.
MaxJobs == 2
\* Requests received over a behaviour.
MaxRequests == 2
\* Clock advances over a behaviour.
MaxTicks == 2
\* Direct calls of the store's functions remembered.
LogLen == 3
\* Line items of one request body.
MaxItems == 2
\* Line items of one call of fillRfqForm.
MaxFillItems == 2
\* Buttons of the page submitForm searches.
MaxButtons == 2
\* Direct calls of generateIdempotencyKey over a behaviour.
MaxKeyCalls == 2
\* Requests that reach the rate limiter over a behaviour.
MaxRateRequests == 6
\* Clock advances while the rate limiter is exercised.
MaxRateTicks == 5

(***************************************************************************)
(* Program constants                                                       *)
(***************************************************************************)
IDEMPOTENCY_TTL_MS == 24 * 60 * 60 * 1000
CLEANUP_INTERVAL_MS == 60 * 60 * 1000
\* The loop bound of the navigation retry, for (attempt = 1; attempt <= 3;).
NAV_ATTEMPTS == 3

\* One advance of Date.now() in the model: exactly the TTL, so that a record is
\* seen at age 0, at age TTL (not yet expired) and beyond.
TickMs == IDEMPOTENCY_TTL_MS

(***************************************************************************)
(* Inputs.  Strings are sequences of tokens; a key is their concatenation. *)
(***************************************************************************)
RfqIds == {<<"rfq-1">>}
Urls == {<<"https://form.example">>}

\* Error texts.
ErrLaunch == "Launch failed"
ErrSetup == "Page setup failed"
\* The message of the error page.goto rejects with on its i-th call.
NavFailure(i) ==
    CASE i = 1 -> "Nav failed (1)"
      [] i = 2 -> "Nav failed (2)"
      [] OTHER -> "Nav failed (3)"

\* `Failed to navigate after 3 attempts: ${lastError?.message}`
ErrNav(lastError) ==
    CASE lastError = NavFailure(1) -> "Failed to navigate after 3 attempts: Nav failed (1)"
      [] lastError = NavFailure(2) -> "Failed to navigate after 3 attempts: Nav failed (2)"
      [] lastError = NavFailure(3) -> "Failed to navigate after 3 attempts: Nav failed (3)"
      [] OTHER -> "Failed to navigate after 3 attempts: undefined"
ErrFill == "Fill failed"
ErrShot == "Screenshot failed"
ErrSubmit == "Form submission failed - submit button not found or submission error"

Statuses == {"processing", "completed", "failed"}

\* Map.get(key) === undefined
NoRecord == [status |-> "none"]
NoResult == [success |-> FALSE]
\* let browser = null
NoBrowser == 0

VARIABLES
    now,              \* Date.now()
    ticks,            \* clock advances so far
    idempotencyStore, \* Map key -> IdempotencyRecord
    jobs,             \* handler invocations suspended at an await
    activeBrowsers,   \* Set of registered sessions
    lastResp,         \* the response sent last
    nreq,             \* requests received so far
    submits,          \* per key: submitForm calls that returned true
    expiredStatus,    \* per key: statuses of records deleted by TTL expiry
    apiLog,           \* the latest direct calls of the store's functions
    windowMs,         \* rateLimit(windowMs, maxRequests): the window length
    maxRequests,      \* rateLimit(windowMs, maxRequests): the limit
    rateLimitStore,   \* Map key -> { count, resetTime }
    rateShadow,       \* the same Map had the sweep never run
    rateLog,          \* the decisions of rateLimit so far
    isShuttingDown,   \* let isShuttingDown
    closing,          \* sessions whose close by closeAllBrowsers is pending
    closeErrors,      \* errors of browser.close() met by closeBrowser / closeAllBrowsers
    sessions,         \* every browser launched so far, and whether it still runs
    supabaseConfigured, \* const isSupabaseConfigured = validateSupabaseConfig()
    gateReq,          \* the request the router received last
    gateResp,         \* what the middleware and the pre-checks answered to it
    quoteDetails,     \* fillRfqForm(page, quoteDetails, requestId): the call in progress
    fillPc,           \* where that call stands
    fillLog,          \* the field helpers' accesses to the page, in order
    submitCall,       \* the latest call of submitForm and what it returned
    nodeEnv,          \* process.env.NODE_ENV ("" when unset)
    launchArgs,       \* launchOptions.args of the browser launched last
    keyCalls          \* the calls of generateIdempotencyKey made directly

\* State of middleware/rate-limiter.js.
rateVars == <<windowMs, maxRequests, rateLimitStore, rateShadow, rateLog>>

\* State of the shutdown path (index.js, services/browser.js).
shutVars == <<isShuttingDown, closing, closeErrors, sessions>>

\* State of the middleware chain and the handler's pre-checks.
gateVars == <<supabaseConfigured, gateReq, gateResp>>

\* State of the form filler (services/form-filler.js).
formVars == <<quoteDetails, fillPc, fillLog, submitCall>>

\* The environment of services/browser.js and what it launched with.
envVars == <<nodeEnv, launchArgs>>

vars == <<now, ticks, idempotencyStore, jobs, activeBrowsers, lastResp, nreq,
          submits, expiredStatus, apiLog, rateVars, shutVars, gateVars, formVars, envVars, keyCalls>>

(***************************************************************************)
(* services/idempotency.js                                                 *)
(***************************************************************************)
\* Variant: the mode is left out of the key.
generateIdempotencyKey_noMode(rfqId, formUrl, isTestMode) ==
    rfqId \o <<":">> \o formUrl

generateIdempotencyKey(rfqId, formUrl, isTestMode) ==
    LET mode == IF isTestMode THEN "test" ELSE "prod"
    IN  rfqId \o <<":", mode, ":">> \o formUrl

Keys == {generateIdempotencyKey(r, u, m) : r \in RfqIds, u \in Urls, m \in BOOLEAN}

\* The arguments generateIdempotencyKey is called with directly: strings as
\* sequences of pieces, the colon being a piece of its own.
KeyRfqIds ==
    {<<"rfq-1">>, <<"rfq-2">>, <<"rfq-1", ":", "test", ":", "https://a/">>}
KeyUrls ==
    {<<"https://b">>, <<"https://a/">>,
     <<"https://a/", ":", "prod", ":", "https://b">>}

\* Variant: a record still processing never expires.
Expired_sparesProcessing(record, t) ==
    t - record.createdAt > IDEMPOTENCY_TTL_MS /\ record.status # "processing"

Expired(record, t) == t - record.createdAt > IDEMPOTENCY_TTL_MS

\* checkIdempotency(key): the store after the call (lazy expiry).
checkStore(store, key, t) ==
    IF store[key] # NoRecord /\ Expired(store[key], t)
    THEN [store EXCEPT ![key] = NoRecord]
    ELSE store

\* checkIdempotency(key): the value returned.
checkIdempotency(store, key, t) ==
    IF store[key] = NoRecord THEN NoRecord
    ELSE IF Expired(store[key], t) THEN NoRecord
    ELSE store[key]

\* startProcessing(key): the value returned.
startProcessing(store, key, t) == checkIdempotency(store, key, t) = NoRecord

\* Variant: begin() reports success and writes nothing.
startStore_noWrite(store, key, t) == store

\* startProcessing(key): the store after the call.
startStore(store, key, t) ==
    IF startProcessing(store, key, t)
    THEN [store EXCEPT ![key] = [status |-> "processing", createdAt |-> t,
                                 result |-> NoResult, error |-> ""]]
    ELSE store

\* Variant: complete() stores the result and leaves the status alone.
markCompleted_keepsStatus(store, key, result) ==
    IF store[key] # NoRecord
    THEN [store EXCEPT ![key].result = result]
    ELSE store

markCompleted(store, key, result) ==
    IF store[key] # NoRecord
    THEN [store EXCEPT ![key].status = "completed", ![key].result = result]
    ELSE store

\* Variant: fail() sets the status and forgets the error text.
markFailed_noError(store, key, error) ==
    IF store[key] # NoRecord
    THEN [store EXCEPT ![key].status = "failed"]
    ELSE store

\* Variant: fail() stores the error text and leaves the status alone.
markFailed_keepsStatus(store, key, error) ==
    IF store[key] # NoRecord
    THEN [store EXCEPT ![key].error = error]
    ELSE store

\* Variant: fail() deletes the record instead of marking it.
markFailed_deletes(store, key, error) == [store EXCEPT ![key] = NoRecord]

markFailed(store, key, error) ==
    IF store[key] # NoRecord
    THEN [store EXCEPT ![key].status = "failed", ![key].error = error]
    ELSE store

\* Variant: remove() deletes nothing.
removeKey_noop(store, key) == store

removeKey(store, key) == [store EXCEPT ![key] = NoRecord]

\* cleanup(): the store after one sweep.
cleanupStore(store, t) ==
    [k \in DOMAIN store |->
        IF store[k] # NoRecord /\ Expired(store[k], t) THEN NoRecord ELSE store[k]]

\* Statuses of the records that a step deleted because they were expired.
NoteExpired(store, store2, t) ==
    [k \in Keys |->
        IF store[k] # NoRecord /\ store2[k] = NoRecord /\ Expired(store[k], t)
        THEN expiredStatus[k] \cup {store[k].status}
        ELSE expiredStatus[k]]

\* res.status(code).json({...})
\* The JSON body of a response that is not a 200.
NoPayload == [success |-> FALSE]

Response(code, success, cached, requestId, key, finalAction, error, existingStatus) ==
    [code |-> code, success |-> success, cached |-> cached,
     requestId |-> requestId, key |-> key, finalAction |-> finalAction,
     error |-> error, existingStatus |-> existingStatus,
     payload |-> NoPayload]

\* No response sent yet.
NoResp == Response(0, FALSE, FALSE, 0, <<>>, "", "", "")

(***************************************************************************)
(* middleware/rate-limiter.js                                              *)
(***************************************************************************)
RATE_LIMIT_WINDOW_MS == 60000
RATE_LIMIT_MAX_REQUESTS == 10
\* Math.ceil((record.resetTime - now) / 1000)
MsPerSecond == 1000

\* The (windowMs, maxRequests) a limiter is created with.
WindowChoices == {1000, 1500}
LimitChoices == {1, 2}

\* A caller: req.ip and req.connection.remoteAddress ("" is undefined).
Clients == {[ip |-> "10.0.0.1", remoteAddress |-> "10.0.0.1"],
            [ip |-> "", remoteAddress |-> "10.0.0.2"]}

\* const key = `puppeteer:${req.ip || req.connection.remoteAddress || 'unknown'}`
rateKey(req) ==
    <<"puppeteer:", IF req.ip # "" THEN req.ip
                    ELSE IF req.remoteAddress # "" THEN req.remoteAddress
                    ELSE "unknown">>

RateKeys == {rateKey(c) : c \in Clients}

\* rateLimitStore.has(key) is false
NoWindow == [count |-> 0]

\* Math.ceil(a / b) for b > 0
CeilDiv(a, b) == (a + b - 1) \div b

Admit == [admitted |-> TRUE, retryAfter |-> 0]

\* Variant: the limit test is count > maxRequests.
rateDecision_offByOne(store, key, t, w, m) ==
    IF store[key] = NoWindow THEN Admit
    ELSE IF t > store[key].resetTime THEN Admit
    ELSE IF store[key].count > m
    THEN [admitted |-> FALSE,
          retryAfter |-> CeilDiv(store[key].resetTime - t, MsPerSecond)]
    ELSE Admit

\* The middleware's outcome: next() or 429 with retryAfter.
rateDecision(store, key, t, w, m) ==
    IF store[key] = NoWindow THEN Admit
    ELSE IF t > store[key].resetTime THEN Admit
    ELSE IF store[key].count >= m
    THEN [admitted |-> FALSE,
          retryAfter |-> CeilDiv(store[key].resetTime - t, MsPerSecond)]
    ELSE Admit

\* Variant: the window record is shared by all callers.
rateStore_sharedWindow(store, key, t, w, m) ==
    LET new == IF store[key] = NoWindow \/ t > store[key].resetTime
               THEN [count |-> 1, resetTime |-> t + w]
               ELSE IF store[key].count >= m THEN store[key]
               ELSE [store[key] EXCEPT !.count = @ + 1]
    IN  [k \in DOMAIN store |-> new]

\* Variant: a rejected request restarts the caller's window.
rateStore_penalises(store, key, t, w, m) ==
    IF store[key] = NoWindow
    THEN [store EXCEPT ![key] = [count |-> 1, resetTime |-> t + w]]
    ELSE IF t > store[key].resetTime
    THEN [store EXCEPT ![key] = [count |-> 1, resetTime |-> t + w]]
    ELSE IF store[key].count >= m
    THEN [store EXCEPT ![key].resetTime = t + w]
    ELSE [store EXCEPT ![key].count = @ + 1]

\* The middleware's effect on rateLimitStore.
rateStore(store, key, t, w, m) ==
    IF store[key] = NoWindow
    THEN [store EXCEPT ![key] = [count |-> 1, resetTime |-> t + w]]
    ELSE IF t > store[key].resetTime
    THEN [store EXCEPT ![key] = [count |-> 1, resetTime |-> t + w]]
    ELSE IF store[key].count >= m THEN store
    ELSE [store EXCEPT ![key].count = @ + 1]

\* Variant: the sweep also deletes a window that ends now.
sweepStore_atDeadline(store, t) ==
    [k \in DOMAIN store |->
        IF store[k] # NoWindow /\ t >= store[k].resetTime THEN NoWindow
        ELSE store[k]]

\* The setInterval callback's effect on rateLimitStore.
sweepStore(store, t) ==
    [k \in DOMAIN store |->
        IF store[k] # NoWindow /\ t > store[k].resetTime THEN NoWindow
        ELSE store[k]]

(***************************************************************************)
(* utils/validation.js                                                     *)
(***************************************************************************)
\* JavaScript values met in a request body: undefined, null, a string, a
\* number, a boolean.
Undefined == [type |-> "undefined", str |-> ""]
Null == [type |-> "null", str |-> ""]
Str(s) == [type |-> "string", str |-> s]
Num(s) == [type |-> "number", str |-> s]
Bool(b) == [type |-> "boolean", str |-> IF b THEN "true" ELSE "false"]

\* !v for such a value
Falsy(v) ==
    \/ v.type \in {"undefined", "null"}
    \/ (v.type = "string" /\ v.str = "")
    \/ (v.type = "number" /\ v.str = "0")
    \/ (v.type = "boolean" /\ v.str = "false")

\* const { name = d } = req.body: the default replaces undefined only.
withDefault(v, d) == IF v.type = "undefined" THEN d ELSE v

\* const VALID_CONDITION_CODES = ['NE', 'NS', 'OH', 'SV', 'AR']
VALID_CONDITION_CODES == <<"NE", "NS", "OH", "SV", "AR">>

\* The strings a conditionCode is drawn from, with String.prototype.trim
\* and toUpperCase on them.
CodeStrings == {"NE", "ne", "XX", "  "}

trim(s) == IF s = "  " THEN "" ELSE s

toUpperCase(s) == IF s = "ne" THEN "NE" ELSE s

\* The strings a quote_submission_url is drawn from, and new URL(s) on them:
\* the protocol, or "" when the constructor throws.
UrlStrings == {"https://form.example", "ftp://form.example", "not-a-url"}

urlProtocol(s) ==
    CASE s = "https://form.example" -> "https:"
      [] s = "ftp://form.example" -> "ftp:"
      [] OTHER -> ""

\* One entry of the errors array: its text and, where the text is a template
\* over the item's index, that index (-1 elsewhere).
ValidationError(text, index) == [text |-> text, index |-> index]

\* The body of the forEach callback for the item at JavaScript index `index`.
conditionCodeErrors(item, index) ==
    IF item.conditionCode.type = "undefined" THEN <<>>
    ELSE IF item.conditionCode.type # "string" \/ trim(item.conditionCode.str) = ""
    THEN <<ValidationError(
            "quote_details.items[index].conditionCode must be a non-empty string",
            index)>>
    ELSE IF \A i \in DOMAIN VALID_CONDITION_CODES :
                VALID_CONDITION_CODES[i] # toUpperCase(item.conditionCode.str)
    THEN <<ValidationError(
            "quote_details.items[index].conditionCode must be one of: NE, NS, OH, SV, AR",
            index)>>
    ELSE <<>>

\* body.quote_details.items.forEach(...): the errors of the first n items.
RECURSIVE itemsErrors(_, _)
itemsErrors(elems, n) ==
    IF n = 0 THEN <<>>
    ELSE itemsErrors(elems, n - 1) \o conditionCodeErrors(elems[n], n - 1)

\* The if / else-if chain on body.rfq_details.
rfqDetailsErrors(body) ==
    IF body.rfq_details.type = "undefined"
    THEN <<ValidationError("rfq_details is required", -1)>>
    ELSE IF Falsy(body.rfq_details.quote_submission_url)
    THEN <<ValidationError("rfq_details.quote_submission_url is required", -1)>>
    ELSE IF urlProtocol(body.rfq_details.quote_submission_url.str) = ""
    THEN <<ValidationError("rfq_details.quote_submission_url must be a valid URL", -1)>>
    ELSE IF urlProtocol(body.rfq_details.quote_submission_url.str) \notin {"http:", "https:"}
    THEN <<ValidationError(
            "rfq_details.quote_submission_url must use http or https protocol", -1)>>
    ELSE <<>>

\* The if / else-if chain on body.quote_details.
quoteDetailsErrors(body) ==
    IF body.quote_details.type = "undefined"
    THEN <<ValidationError("quote_details is required", -1)>>
    ELSE IF ~Falsy(body.quote_details.items) /\ body.quote_details.items.type # "array"
    THEN <<ValidationError("quote_details.items must be an array", -1)>>
    ELSE IF body.quote_details.items.type = "array"
    THEN itemsErrors(body.quote_details.items.elems,
                     Len(body.quote_details.items.elems))
    ELSE <<>>

\* Variant: validation stops at the first violated constraint.
validateRfqRequest_firstOnly(body) ==
    LET all == IF body.type = "undefined"
               THEN <<ValidationError("Request body is required", -1)>>
               ELSE rfqDetailsErrors(body) \o quoteDetailsErrors(body)
    IN  IF all = <<>> THEN <<>> ELSE <<Head(all)>>

\* function validateRfqRequest(body)
validateRfqRequest(body) ==
    IF body.type = "undefined"
    THEN <<ValidationError("Request body is required", -1)>>
    ELSE rfqDetailsErrors(body) \o quoteDetailsErrors(body)

(***************************************************************************)
(* services/form-filler.js                                                 *)
(***************************************************************************)
\* A line item; "" stands for an undefined property.
Item(conditionCode, no_quote, qty_available, traceability, price_type) ==
    [conditionCode |-> conditionCode, no_quote |-> no_quote,
     qty_available |-> qty_available, traceability |-> traceability,
     uom |-> "", price_usd |-> "", price_type |-> price_type, lead_time |-> "",
     tag_date |-> "", min_qty |-> "", comments |-> ""]

FillItems ==
    {Item(c, n, q, t, p) : c \in {"", "NE", "SV"}, n \in BOOLEAN, q \in {"", "10"},
                           t \in {"", "NEW"}, p \in {"", "EXCHANGE"}}

\* The quoteDetails fillRfqForm is called with.
QuoteInputs ==
    {[items |-> l, supplier_comments |-> s, quote_prepared_by |-> b] :
        l \in UNION {[1..n -> FillItems] : n \in 0..MaxFillItems},
        s \in {"", "note"}, b \in {"", "me"}}

NoQuote == [items |-> <<>>, supplier_comments |-> "", quote_prepared_by |-> ""]

\* item.price_type.toLowerCase()
toLowerCase(s) ==
    CASE s = "EXCHANGE" -> "exchange"
      [] s = "OUTRIGHT" -> "outright"
      [] s = "Submit Quote" -> "submit quote"
      [] s = "Send" -> "send"
      [] s = "Cancel" -> "cancel"
      [] s = "Cancel without submitting" -> "cancel without submitting"
      [] s = "Save" -> "save"
      [] OTHER -> s

\* formatTagDate(value) of utils/validation.js on the dates met here.
formatTagDate(value) ==
    CASE value = "" -> ""
      [] value = "jan-15-2024" -> "JAN-15-2024"
      [] value = "2024-01-15" -> "JAN-15-2024"
      [] OTHER -> value

\* The position of a call of fillRfqForm: before the call, at field f of the
\* item with index i, at one of the two single fields, in the final delay,
\* returned, or ended by an exception.
Idle == [phase |-> "idle", i |-> 0, f |-> 0]
AtField(i, f) == [phase |-> "items", i |-> i, f |-> f]
AtPhase(phase) == [phase |-> phase, i |-> 0, f |-> 0]

\* A call of a field helper: helper(page, suffix, index, value).
Call(helper, suffix, index, value) ==
    [helper |-> helper, suffix |-> suffix, index |-> index, value |-> value]

NoCall == Call("", "", 0, "")

\* The helper call fillRfqForm makes at step f of the loop body for the
\* item with index i.
ITEM_STEPS == 9

fieldCall(item, i, f) ==
    CASE f = 1 -> Call("fillRepeaterFieldBySuffix", "txtNEQty1", i, item.qty_available)
      [] f = 2 -> Call("selectDropdownBySuffix", "ddlNETraceability1", i, item.traceability)
      [] f = 3 -> Call("fillRepeaterFieldBySuffix", "txtNEUnitMeasure1", i, item.uom)
      [] f = 4 -> Call("fillRepeaterFieldBySuffix", "txtNEPrice1", i, item.price_usd)
      [] f = 5 -> IF item.price_type = "" THEN NoCall
                  ELSE IF toLowerCase(item.price_type) = "outright"
                  THEN Call("clickElementBySuffix", "rbOutrightNE1", i, "click")
                  ELSE IF toLowerCase(item.price_type) = "exchange"
                  THEN Call("clickElementBySuffix", "rbExchangeNE1", i, "click")
                  ELSE NoCall
      [] f = 6 -> Call("fillRepeaterFieldBySuffix", "txtNELead1", i, item.lead_time)
      [] f = 7 -> Call("fillRepeaterFieldBySuffix", "txtNEDate1", i,
                       formatTagDate(item.tag_date))
      [] f = 8 -> Call("fillRepeaterFieldBySuffix", "txtNEMinQuantity1", i, item.min_qty)
      [] OTHER -> IF item.comments = "" THEN NoCall
                  ELSE Call("fillRepeaterFieldBySuffix", "txtNEComments1", i, item.comments)

\* The helper gets past its early return and touches the page.
touchesPage(call) == call # NoCall /\ call.value # ""

\* What the page does to a helper that touches it: the element is there and
\* is written, waitForFunction times out, or an evaluate / select rejects.
FieldOutcomes == {"ok", "timeout", "error"}

\* Variant: a helper catches the wait's timeout only.
helperCatches_timeoutOnly(outcome) == outcome # "error"

\* try { ... } catch (error) { logger.debug('Skipped ...') } in every helper
helperCatches(outcome) == TRUE

\* Variant: no item is skipped.
skipsItem_never(item) == FALSE

\* if (item.no_quote) continue
skipsItem(item) == item.no_quote

\* The loop from index i on: the first item that is not skipped, or
\* items.length.
RECURSIVE nextItem(_, _)
nextItem(items, i) ==
    IF i >= Len(items) THEN Len(items)
    ELSE IF skipsItem(items[i + 1]) THEN nextItem(items, i + 1)
    ELSE i

\* Where the loop goes from index i: into that item's first step or past
\* the loop.
loopFrom(items, i) ==
    IF nextItem(items, i) < Len(items) THEN AtField(nextItem(items, i), 1)
    ELSE AtPhase("supplier_comments")

\* One access of a field helper to the page, as logged: the call, the index
\* of the item it was made for (-1 for the two single fields) and whether
\* the value was written.
Access(call, item, written) == [call |-> call, item |-> item, written |-> written]

\* Errors page.evaluate rejects with inside submitForm: what happened and
\* error.message ("" when the error has none).
SubmitErrors ==
    {[kind |-> "contextDestroyed",
      message |-> "Execution context was destroyed, most likely because of a navigation."],
     [kind |-> "contextDestroyed",
      message |-> "Cannot find context with specified id: context was destroyed"],
     [kind |-> "targetClosed",
      message |-> "Protocol error (Runtime.callFunctionOn): Target closed."],
     [kind |-> "other", message |-> "Unknown error"],
     [kind |-> "other", message |-> ""]}

NoError == [kind |-> "", message |-> ""]

\* error.message?.includes(pattern) on these messages
includes(message, pattern) ==
    CASE message = "Execution context was destroyed, most likely because of a navigation."
            -> pattern \in {"Execution context was destroyed", "context was destroyed"}
      [] message = "Cannot find context with specified id: context was destroyed"
            -> pattern = "context was destroyed"
      [] message = "Protocol error (Runtime.callFunctionOn): Target closed."
            -> pattern = "Target closed"
      [] message = "submit quote" -> pattern = "submit"
      [] message = "send" -> pattern = "send"
      [] message = "cancel" -> pattern = "cancel"
      [] message = "cancel without submitting" -> pattern \in {"cancel", "submit"}
      [] OTHER -> FALSE

\* Variant: the catch block of submitForm always returns false.
treatedAsSubmitted_never(message) == FALSE

\* The condition of the catch block of submitForm.
treatedAsSubmitted(message) ==
    \/ includes(message, "Execution context was destroyed")
    \/ includes(message, "context was destroyed")
    \/ includes(message, "Target closed")

\* What the race of waitForNavigation with delay(5000) does after a click.
SubmitNavigations == {"navigated", "delayed", "rejected"}

\* A button of the page: btn.textContent || btn.value || '' and btn.type.
Button(text, type) == [text |-> text, type |-> type]

\* submitBtn when find returns undefined.
NoButton == Button("", "")

\* The labels and types of the buttons of the pages considered.
Labels == {"Submit Quote", "Send", "Cancel", "Cancel without submitting", "Save", ""}
ButtonTypes == {"submit", "button"}

\* document.querySelectorAll('button, input[type="button"],
\* input[type="submit"]') on the pages considered: the buttons in document
\* order.
Pages ==
    UNION {[1..n -> {Button(l, t) : l \in Labels, t \in ButtonTypes}] :
              n \in 0..MaxButtons}

\* The callback of buttons.find in submitForm.
isSubmitBtn(btn) ==
    LET text == toLowerCase(btn.text)
    IN  \/ includes(text, "submit")
        \/ includes(text, "send quote")
        \/ includes(text, "send")
        \/ (btn.type = "submit" /\ ~includes(text, "cancel"))

\* const submitBtn = buttons.find(...): the first button in document order
\* the callback accepts.
submitBtn(buttons) ==
    LET found == {i \in 1..Len(buttons) : isSubmitBtn(buttons[i])}
    IN  IF found = {} THEN NoButton
        ELSE buttons[CHOOSE i \in found : \A j \in found : i <= j]

\* The value submitForm returns.
submitForm(evaluate, error, navigation) ==
    IF evaluate = "throws" THEN treatedAsSubmitted(error.message)
    ELSE evaluate = "clicked"

\* A call of submitForm: what the page did, what the call returned, the
\* buttons of the page and the one clicked.
SubmitCall(evaluate, error, navigation, result) ==
    [evaluate |-> evaluate, error |-> error, navigation |-> navigation,
     result |-> result, threw |-> FALSE, buttons |-> <<>>,
     clicked |-> NoButton]

NoSubmit == SubmitCall("", NoError, "", FALSE)

(***************************************************************************)
(* Requests to POST /puppeteer/fill-rfq and the early responses            *)
(***************************************************************************)
\* Correlation identifiers are numbers: crypto.randomUUID() gives the n-th
\* request the number n, callers choose theirs from SuppliedIds, and NoId
\* stands for an absent header or body field.
NoId == 0
SuppliedIds == {101}
randomUUID(n) == n

ConditionCodes == {Undefined, Num("5")} \cup {Str(s) : s \in CodeStrings}

ItemLists == UNION {[1..n -> {[conditionCode |-> c] : c \in ConditionCodes}] : n \in 0..MaxItems}

NoItems == [type |-> "undefined", str |-> "", elems |-> <<>>]

ItemsValues ==
    {NoItems, [type |-> "string", str |-> "not-an-array", elems |-> <<>>]}
    \cup {[type |-> "array", str |-> "", elems |-> l] : l \in ItemLists}

RfqDetailsValues ==
    {[type |-> "undefined", quote_submission_url |-> Undefined]}
    \cup {[type |-> "object", quote_submission_url |-> u] :
            u \in {Undefined} \cup {Str(s) : s \in UrlStrings}}

QuoteDetailsValues ==
    {[type |-> "undefined", items |-> NoItems]}
    \cup {[type |-> "object", items |-> i] : i \in ItemsValues}

\* req.body with the defaults of the handler's destructuring applied:
\* { rfq_details, quote_details, keepOpen = false, isTestMode = true }
Body(rfq_details, quote_details, isTestMode, keepOpen) ==
    [type |-> "object", rfq_details |-> rfq_details,
     quote_details |-> quote_details, isTestMode |-> isTestMode,
     keepOpen |-> keepOpen]

\* validateRfqRequest(undefined)
NoBody ==
    [type |-> "undefined",
     rfq_details |-> [type |-> "undefined", quote_submission_url |-> Undefined],
     quote_details |-> [type |-> "undefined", items |-> NoItems],
     isTestMode |-> Undefined, keepOpen |-> FALSE]

\* A body that passes validation, with this value of isTestMode.
WellFormedWith(flag) ==
    Body([type |-> "object", quote_submission_url |-> Str("https://form.example")],
         [type |-> "object", items |-> NoItems], flag, FALSE)

\* A body that passes validation, in either mode.
WellFormed(isTestMode) == WellFormedWith(Bool(isTestMode))

\* The values of isTestMode sent: left out, the two booleans, and values
\* that are neither.
ModeValues ==
    {Undefined, Bool(TRUE), Bool(FALSE), Null, Num("0"), Str(""), Str("false")}

\* The bodies sent: every combination of the fields' values with the flags
\* left out, and the well-formed body in both modes.
Bodies ==
    {Body(r, q, Undefined, FALSE) : r \in RfqDetailsValues, q \in QuoteDetailsValues}
    \cup {WellFormed(m) : m \in BOOLEAN}

\* One caller's requests: headers X-Request-ID and X-RFQ-ID ("" and NoId
\* are absent headers) and the body.
Req(xRequestId, xRfqId, body) ==
    [ip |-> "10.0.0.1", remoteAddress |-> "10.0.0.1", xRequestId |-> xRequestId,
     xRfqId |-> xRfqId, body |-> body]

\* Requests with every body, none naming its own correlation identifier.
ValidationRequests == {Req(NoId, h, b) : h \in {"", "rfq-1"}, b \in Bodies}

\* The body {}.
EmptyBody ==
    Body([type |-> "undefined", quote_submission_url |-> Undefined],
         [type |-> "undefined", items |-> NoItems], Undefined, FALSE)

\* Well-formed requests with every value of isTestMode.
ModeRequests == {Req(NoId, "rfq-1", WellFormedWith(v)) : v \in ModeValues}

\* Requests with and without the headers, well-formed or empty.
GateRequests ==
    {Req(i, h, b) : i \in {NoId} \cup SuppliedIds, h \in {"", "rfq-1"},
                    b \in {WellFormed(TRUE), WellFormed(FALSE), EmptyBody}}

NoReq ==
    [ip |-> "", remoteAddress |-> "", xRequestId |-> NoId, xRfqId |-> "",
     body |-> NoBody]

\* A response sent before the handler reaches the idempotency check: status,
\* body fields error, errors, requestId and retryAfter, and the X-Request-ID
\* header (NoId when it was not set).
GateResponse(status, error, errors, requestId, header, retryAfter) ==
    [status |-> status, error |-> error, errors |-> errors,
     requestId |-> requestId, header |-> header, retryAfter |-> retryAfter]

\* No such response: the handler went on.
NoGateResp == GateResponse(0, "", <<>>, NoId, NoId, 0)

(***************************************************************************)
(* services/browser.js: launch options                                     *)
(***************************************************************************)
\* The values of NODE_ENV the service is started with ("" is unset).
NodeEnvs == {"", "development", "production", "test", "staging"}

\* const IS_PRODUCTION = process.env.NODE_ENV === 'production'
IS_PRODUCTION(env) == env = "production"

\* launchOptions.args as initialised.
BaseArgs ==
    {"--no-sandbox", "--disable-setuid-sandbox", "--disable-dev-shm-usage",
     "--disable-gpu", "--disable-extensions", "--disable-background-networking",
     "--disable-default-apps", "--disable-sync", "--no-first-run",
     "--window-size=1920,1080"}

\* The flags pushed by `if (!IS_PRODUCTION)`.
SecurityRelaxingArgs ==
    {"--ignore-certificate-errors", "--ignore-certificate-errors-spki-list",
     "--disable-web-security", "--disable-features=IsolateOrigins,site-per-process"}

\* launchOptions.args as passed to puppeteer.launch.
launchOptionsArgs(env) ==
    IF ~IS_PRODUCTION(env) THEN BaseArgs \cup SecurityRelaxingArgs ELSE BaseArgs

(***************************************************************************)
(* Initial state: module load                                              *)
(***************************************************************************)
\* Everything but the limiter's parameters.
InitState ==
    /\ now = 0
    /\ ticks = 0
    /\ idempotencyStore = [k \in Keys |-> NoRecord]
    /\ jobs = {}
    /\ activeBrowsers = {}
    /\ lastResp = NoResp
    /\ nreq = 0
    /\ submits = [k \in Keys |-> 0]
    /\ expiredStatus = [k \in Keys |-> {}]
    /\ apiLog = <<>>
    /\ rateLimitStore = [k \in RateKeys |-> NoWindow]
    /\ rateShadow = [k \in RateKeys |-> NoWindow]
    /\ rateLog = <<>>
    /\ isShuttingDown = FALSE
    /\ closing = {}
    /\ closeErrors = {}
    /\ sessions = {}
    /\ gateReq = NoReq
    /\ gateResp = NoGateResp
    /\ quoteDetails = NoQuote
    /\ fillPc = Idle
    /\ fillLog = <<>>
    /\ submitCall = NoSubmit
    /\ launchArgs = {}
    /\ keyCalls = {}

\* router.use(rateLimit()): the route's limiter has the default parameters,
\* and the evidence storage is configured.
Init ==
    /\ InitState
    /\ supabaseConfigured = TRUE
    /\ nodeEnv = "production"
    /\ windowMs = RATE_LIMIT_WINDOW_MS
    /\ maxRequests = RATE_LIMIT_MAX_REQUESTS

(***************************************************************************)
(* routes/fill-rfq.js: router.post('/')                                    *)
(***************************************************************************)
\* Variant: a processing record does not stop the request.
idempotencyBranch_noConflict(existingRecord, isTestMode) ==
    IF existingRecord = NoRecord THEN "claim"
    ELSE IF existingRecord.status = "completed" /\ ~isTestMode THEN "cached"
    ELSE "retry"

\* Variant: the mode test of the cached branch is inverted.
idempotencyBranch_modeInverted(existingRecord, isTestMode) ==
    IF existingRecord = NoRecord THEN "claim"
    ELSE IF existingRecord.status = "processing" THEN "conflict"
    ELSE IF existingRecord.status = "completed" /\ isTestMode THEN "cached"
    ELSE "retry"

\* Variant: a failed record is treated like one still processing.
idempotencyBranch_failedConflict(existingRecord, isTestMode) ==
    IF existingRecord = NoRecord THEN "claim"
    ELSE IF existingRecord.status \in {"processing", "failed"} THEN "conflict"
    ELSE IF existingRecord.status = "completed" /\ ~isTestMode THEN "cached"
    ELSE "retry"

\* Variant: only a failed record is removed before the key is claimed.
idempotencyBranch_retryOnlyFailed(existingRecord, isTestMode) ==
    IF existingRecord = NoRecord THEN "claim"
    ELSE IF existingRecord.status = "processing" THEN "conflict"
    ELSE IF existingRecord.status = "completed" /\ ~isTestMode THEN "cached"
    ELSE IF existingRecord.status = "failed" THEN "retry"
    ELSE "claim"

\* The branch the handler takes on the record checkIdempotency returned.
idempotencyBranch(existingRecord, isTestMode) ==
    IF existingRecord = NoRecord THEN "claim"
    ELSE IF existingRecord.status = "processing" THEN "conflict"
    ELSE IF existingRecord.status = "completed" /\ ~isTestMode THEN "cached"
    ELSE IF existingRecord.status = "failed" \/ isTestMode THEN "retry"
    ELSE "claim"

\* What uploadScreenshotToSupabase returns for a capture at time t (the file
\* name carries Date.now()).
screenshotResult(t) == [type |-> "filled", captured_at |-> t]

\* let screenshotResult before the capture has resolved.
NoScreenshot == [type |-> "none"]

\* const successResponse = {...}
successResponse(job, finalAction) ==
    [success |-> TRUE,
     message |-> IF job.isTestMode THEN "Form filled and cancelled successfully"
                 ELSE "Form filled and submitted successfully",
     requestId |-> job.requestId, finalAction |-> finalAction,
     isTestMode |-> job.isTestMode,
     screenshot_data |-> <<job.screenshotResult>>]

\* { ...existingRecord.result, cached: true, message: '...', requestId }
cachedResponse(result, requestId) ==
    [success |-> result.success,
     message |-> "Form was already submitted successfully. Returning cached result.",
     requestId |-> requestId, finalAction |-> result.finalAction,
     isTestMode |-> result.isTestMode,
     screenshot_data |-> result.screenshot_data,
     cached |-> TRUE]

\* The handler's locals once it has claimed its key and awaits launchBrowser.
NewJob(requestId, key, isTestMode, keepOpen) ==
    [requestId |-> requestId, key |-> key, isTestMode |-> isTestMode,
     keepOpen |-> keepOpen, pc |-> "launchBrowser", attempt |-> 0,
     browser |-> NoBrowser, closeCalls |-> 0, pages |-> 0, lastError |-> "",
     captures |-> 0, evidence |-> FALSE, screenshotResult |-> NoScreenshot,
     networkIdle |-> ""]

\* The handler moves on to its next await.
Step(job, job2) == jobs' = (jobs \ {job}) \cup {job2}

\* Variant: the finally block never closes the browser.
closesBrowser_never(b, keepOpen) == FALSE

\* Variant: keepOpen is ignored.
closesBrowser_ignoresKeepOpen(b, keepOpen) == b # NoBrowser

\* if (browser && !keepOpen)
closesBrowser(b, keepOpen) == b # NoBrowser /\ ~keepOpen

\* The finally block: closeBrowser is called unless keepOpen or browser is
\* null (activeBrowsers.delete runs before closeBrowser's first await);
\* otherwise the handler returns.
Finally(job) ==
    IF closesBrowser(job.browser, job.keepOpen)
    THEN /\ Step(job, [job EXCEPT !.pc = "closeBrowser", !.closeCalls = @ + 1])
         /\ activeBrowsers' = activeBrowsers \ {job.browser}
    ELSE /\ jobs' = jobs \ {job}
         /\ UNCHANGED activeBrowsers

\* The catch block, followed by the finally block.
Catch(job, error) ==
    /\ idempotencyStore' = markFailed(idempotencyStore, job.key, error)
    /\ lastResp' = Response(500, FALSE, FALSE, job.requestId, job.key, "", error, "")
    /\ Finally(job)
    /\ UNCHANGED <<now, ticks, nreq, submits, expiredStatus, apiLog, rateVars, gateVars, formVars, envVars, keyCalls, shutVars>>

\* Variant: the shutdown check lets every request through.
shutdownRejects_never(flag) == FALSE

\* if (getShuttingDown()) return res.status(503)
shutdownRejects(flag) == flag

\* A request arrives while the shutdown check rejects: 503, and the handler
\* is not called.
ShutdownCheck ==
    /\ nreq < MaxRequests
    /\ shutdownRejects(isShuttingDown)
    /\ nreq' = nreq + 1
    /\ lastResp' = Response(503, FALSE, FALSE, nreq + 1, <<>>, "",
                            "Puppeteer service is shutting down", "")
    /\ UNCHANGED <<now, ticks, idempotencyStore, jobs, activeBrowsers, submits,
                   expiredStatus, apiLog, rateVars, gateVars, formVars, envVars, keyCalls, shutVars>>

\* The synchronous prefix of the handler from the key's generation up to the
\* first await (check, conflict / cached / retry, claim).
Handle(requestId, rfqId, url, isTestMode, keepOpen) ==
    LET key == generateIdempotencyKey(rfqId, url, isTestMode)
        existingRecord == checkIdempotency(idempotencyStore, key, now)
        s1 == checkStore(idempotencyStore, key, now)
        branch == idempotencyBranch(existingRecord, isTestMode)
        s2 == IF branch = "retry" THEN removeKey(s1, key) ELSE s1
    IN  /\ IF branch = "conflict"
           THEN /\ idempotencyStore' = s1
                /\ lastResp' = Response(409, FALSE, FALSE, requestId, key, "",
                     "Request already being processed. Please wait for completion.",
                     "processing")
                /\ UNCHANGED jobs
           ELSE IF branch = "cached"
           THEN /\ idempotencyStore' = s1
                /\ lastResp' = [Response(200, existingRecord.result.success, TRUE,
                     requestId, key, existingRecord.result.finalAction, "", "")
                     EXCEPT !.payload = cachedResponse(existingRecord.result, requestId)]
                /\ UNCHANGED jobs
           ELSE IF ~startProcessing(s2, key, now)
           THEN /\ idempotencyStore' = s2
                /\ lastResp' = Response(409, FALSE, FALSE, requestId, key, "",
                     "Concurrent request detected. Please retry.", "")
                /\ UNCHANGED jobs
           ELSE /\ idempotencyStore' = startStore(s2, key, now)
                /\ jobs' = jobs \cup {NewJob(requestId, key, isTestMode, keepOpen)}
                /\ UNCHANGED lastResp
        /\ expiredStatus' = NoteExpired(idempotencyStore, s1, now)

\* A well-formed request arrives and passes the shutdown check: the handler
\* runs up to its first await.
Request(rfqId, url, isTestMode, keepOpen) ==
    /\ Cardinality(jobs) < MaxJobs
    /\ nreq < MaxRequests
    /\ ~shutdownRejects(isShuttingDown)
    /\ nreq' = nreq + 1
    /\ Handle(nreq + 1, rfqId, url, isTestMode, keepOpen)
    /\ UNCHANGED <<now, ticks, activeBrowsers, submits, apiLog, rateVars, gateVars, formVars, envVars, keyCalls, shutVars>>

\* Variant: the handler does not check the storage configuration.
unconfigured_ignored(configured) == FALSE

\* if (!isSupabaseConfigured())
unconfigured(configured) == ~configured

\* Variant: the handler does not check the X-RFQ-ID header.
missingHeader_ignored(rfqId) == FALSE

\* if (!rfqId)
missingHeader(rfqId) == rfqId = ""

\* The middleware chain (rate limiter, request id, shutdown check) and the
\* handler's pre-checks, in their order: the response that ends the request
\* early, or NoGateResp when the handler goes on to the idempotency check.
\* d is the limiter's decision, requestId is req.puppeteerId.
gate(req, d, requestId, shutting, configured) ==
    IF ~d.admitted
    THEN GateResponse(429, "Too many requests to puppeteer service", <<>>,
                      NoId, NoId, d.retryAfter)
    ELSE IF shutdownRejects(shutting)
    THEN GateResponse(503, "Puppeteer service is shutting down", <<>>,
                      NoId, requestId, 0)
    ELSE IF unconfigured(configured)
    THEN GateResponse(503, "Supabase not configured. Set SUPABASE_URL and SUPABASE_SERVICE_ROLE_KEY environment variables.",
                      <<>>, requestId, requestId, 0)
    ELSE IF missingHeader(req.xRfqId)
    THEN GateResponse(400, "X-RFQ-ID header is required for screenshot uploads",
                      <<>>, requestId, requestId, 0)
    ELSE IF Len(validateRfqRequest(req.body)) > 0
    THEN GateResponse(400, "", validateRfqRequest(req.body), requestId,
                      requestId, 0)
    ELSE NoGateResp

\* A request arrives at the router: the rate limiter, the request-id
\* middleware, the shutdown check and the handler up to its first await.
Receive(req) ==
    /\ Cardinality(jobs) < MaxJobs
    /\ nreq < MaxRequests
    /\ LET key == rateKey(req)
           d == rateDecision(rateLimitStore, key, now, windowMs, maxRequests)
           requestId == IF req.xRequestId # NoId THEN req.xRequestId
                        ELSE randomUUID(nreq + 1)
           g == gate(req, d, requestId, isShuttingDown, supabaseConfigured)
       IN  /\ nreq' = nreq + 1
           /\ rateLimitStore' = rateStore(rateLimitStore, key, now, windowMs, maxRequests)
           /\ rateShadow' = rateStore(rateShadow, key, now, windowMs, maxRequests)
           /\ rateLog' = Append(rateLog,
                  [key |-> key, at |-> now, admitted |-> d.admitted,
                   retryAfter |-> d.retryAfter,
                   header |-> IF d.admitted THEN "" ELSE ToString(d.retryAfter)])
           /\ gateResp' = g
           /\ gateReq' = req
           /\ IF g # NoGateResp
              THEN /\ lastResp' = Response(g.status, FALSE, FALSE, g.requestId,
                                           <<>>, "", g.error, "")
                   /\ UNCHANGED <<idempotencyStore, jobs, expiredStatus>>
              ELSE Handle(requestId, <<req.xRfqId>>,
                          <<req.body.rfq_details.quote_submission_url.str>>,
                          ~Falsy(withDefault(req.body.isTestMode, Bool(TRUE))),
                          req.body.keepOpen)
    /\ UNCHANGED <<now, ticks, activeBrowsers, submits, apiLog, windowMs,
                   maxRequests, supabaseConfigured, shutVars, formVars, envVars, keyCalls>>

\* A browser puppeteer.launch has returned: the request it serves, whether
\* that request set keepOpen, whether the shutdown had begun when the launch
\* resolved, and whether the browser still runs.
Session(b, keepOpen, duringShutdown) ==
    [browser |-> b, keepOpen |-> keepOpen, duringShutdown |-> duringShutdown,
     open |-> TRUE]

\* browser.close() on b resolves: the browser is gone.
Closed(all, b) ==
    {IF s.browser = b THEN [s EXCEPT !.open = FALSE] ELSE s : s \in all}

\* browser = await launchBrowser(requestId)
LaunchBrowser(job) ==
    /\ job.pc = "launchBrowser"
    /\ \/ /\ Step(job, [job EXCEPT !.pc = "setupPage", !.browser = job.requestId])
          /\ activeBrowsers' = activeBrowsers \cup {job.requestId}
          /\ launchArgs' = launchOptionsArgs(nodeEnv)
          /\ sessions' = sessions \cup {Session(job.requestId, job.keepOpen,
                                                 isShuttingDown)}
          /\ UNCHANGED <<now, ticks, idempotencyStore, lastResp, nreq, submits,
                         expiredStatus, apiLog, rateVars, gateVars, formVars, nodeEnv, keyCalls,
                         isShuttingDown, closing, closeErrors>>
       \/ Catch(job, ErrLaunch)

\* let page = await setupPage(browser, requestId)
SetupPage(job) ==
    /\ job.pc = "setupPage"
    /\ \/ /\ Step(job, [job EXCEPT !.pc = "goto", !.attempt = 1, !.pages = 1])
          /\ UNCHANGED <<now, ticks, idempotencyStore, activeBrowsers, lastResp,
                         nreq, submits, expiredStatus, apiLog, rateVars, gateVars, formVars, envVars, keyCalls, shutVars>>
       \/ Catch(job, ErrSetup)

\* Variant: the loop gives up one attempt early.
loopContinues_early(attempt) == attempt + 1 < NAV_ATTEMPTS

\* for (...; attempt <= 3; attempt++): the loop goes on after this attempt.
loopContinues(attempt) == attempt + 1 <= NAV_ATTEMPTS

\* if (attempt < 3): the page is recreated after this failed attempt.
recreatesPage(attempt) == attempt < NAV_ATTEMPTS

\* What page.waitForNetworkIdle({ timeout: 60000 }) does after page.goto
\* has resolved: the network goes idle, or the wait times out.
IdleOutcomes == {"idle", "timeout"}

\* Variant: a rejection of the wait is thrown on to the loop's catch block.
swallowsIdleError_never(outcome) == FALSE

\* .catch(() => { logger.warn('Network idle timeout, continuing') }) on the
\* wait: every rejection is swallowed.
swallowsIdleError(outcome) == TRUE

\* One iteration of the navigation loop: page.goto, waitForNetworkIdle (its
\* rejection is swallowed), and on failure lastError = navError, then
\* page.close, setupPage and delay unless this was the third attempt; after
\* the loop the throw if no attempt succeeded.
Goto(job) ==
    /\ job.pc = "goto"
    /\ \/ /\ \E idle \in IdleOutcomes :
                /\ idle = "idle" \/ swallowsIdleError(idle)
                /\ Step(job, [job EXCEPT !.pc = "fillRfqForm", !.networkIdle = idle])
          /\ UNCHANGED <<now, ticks, idempotencyStore, activeBrowsers, lastResp,
                         nreq, submits, expiredStatus, apiLog, rateVars, gateVars, formVars, envVars, keyCalls, shutVars>>
       \/ \E cause \in {"goto"} \cup {idle \in IdleOutcomes :
                                      idle # "idle" /\ ~swallowsIdleError(idle)} :
          LET lastError == NavFailure(job.attempt)
          IN  \/ /\ recreatesPage(job.attempt)
                 /\ Catch(job, ErrSetup)
              \/ /\ loopContinues(job.attempt)
                 /\ Step(job, [job EXCEPT
                        !.attempt = @ + 1,
                        !.lastError = lastError,
                        !.networkIdle = IF cause = "goto" THEN @ ELSE cause,
                        !.pages = IF recreatesPage(job.attempt) THEN @ + 1 ELSE @])
                 /\ UNCHANGED <<now, ticks, idempotencyStore, activeBrowsers,
                                lastResp, nreq, submits, expiredStatus, apiLog,
                                rateVars, gateVars, formVars, envVars, keyCalls, shutVars>>
              \/ /\ ~loopContinues(job.attempt)
                 /\ Catch(job, ErrNav(lastError))

\* Variant: the handler goes from the fill straight to the final action.
afterFill_finalAction == "finalAction"

\* The await that follows fillRfqForm in the try block.
afterFill == "captureAndUploadScreenshot"

\* await fillRfqForm(page, quote_details, requestId) settles; when it
\* resolves the handler calls captureAndUploadScreenshot and awaits it.
FillRfqForm(job) ==
    /\ job.pc = "fillRfqForm"
    /\ \/ /\ Step(job, [job EXCEPT
                 !.pc = afterFill,
                 !.captures = IF afterFill = "captureAndUploadScreenshot"
                              THEN @ + 1 ELSE @])
          /\ UNCHANGED <<now, ticks, idempotencyStore, activeBrowsers, lastResp,
                         nreq, submits, expiredStatus, apiLog, rateVars, gateVars, formVars, envVars, keyCalls, shutVars>>
       \/ Catch(job, ErrFill)

\* const screenshotResult = await captureAndUploadScreenshot(...) settles;
\* when it resolves the handler calls cancelFormSubmission or submitForm.
CaptureAndUploadScreenshot(job) ==
    /\ job.pc = "captureAndUploadScreenshot"
    /\ \/ /\ Step(job, [job EXCEPT !.pc = "finalAction", !.evidence = TRUE,
                                   !.screenshotResult = screenshotResult(now)])
          /\ UNCHANGED <<now, ticks, idempotencyStore, activeBrowsers, lastResp,
                         nreq, submits, expiredStatus, apiLog, rateVars, gateVars, formVars, envVars, keyCalls, shutVars>>
       \/ Catch(job, ErrShot)

\* cancelFormSubmission / submitForm resolve (neither throws), then the
\* handler marks the record, responds and runs the finally block.
FinalAction(job) ==
    /\ job.pc = "finalAction"
    /\ \E submitSuccess \in BOOLEAN :
        LET finalAction == IF job.isTestMode THEN "FORM_CANCELLED"
                           ELSE IF submitSuccess THEN "FORM_SUBMITTED"
                           ELSE "FORM_SUBMISSION_FAILED"
        IN  /\ job.isTestMode => submitSuccess
            /\ IF ~job.isTestMode /\ ~submitSuccess
               THEN /\ idempotencyStore' = markFailed(idempotencyStore, job.key, ErrSubmit)
                    /\ lastResp' = Response(500, FALSE, FALSE, job.requestId, job.key,
                                            finalAction, ErrSubmit, "")
               ELSE /\ idempotencyStore' =
                         markCompleted(idempotencyStore, job.key,
                                       successResponse(job, finalAction))
                    /\ lastResp' = [Response(200, TRUE, FALSE, job.requestId, job.key,
                                             finalAction, "", "")
                                     EXCEPT !.payload = successResponse(job, finalAction)]
            /\ submits' = IF ~job.isTestMode /\ submitSuccess
                          THEN [submits EXCEPT ![job.key] = @ + 1]
                          ELSE submits
    /\ Finally(job)
    /\ UNCHANGED <<now, ticks, nreq, expiredStatus, apiLog, rateVars, gateVars, formVars, envVars, keyCalls, shutVars>>

\* Variant: the catch block throws the error on.
catchesCloseError_rethrows(fn) == [fn |-> fn, rethrown |-> TRUE]

\* catch (error) { logger.warn(...) } around await browser.close()
catchesCloseError(fn) == [fn |-> fn, rethrown |-> FALSE]

\* await browser.close() inside closeBrowser settles (a rejection is caught
\* and logged); the handler returns.
CloseBrowser(job) ==
    /\ job.pc = "closeBrowser"
    /\ jobs' = jobs \ {job}
    /\ \E ok \in BOOLEAN :
          /\ closeErrors' = IF ok THEN closeErrors
                            ELSE closeErrors \cup {catchesCloseError("closeBrowser")}
          /\ sessions' = IF ok THEN Closed(sessions, job.browser)
                         ELSE sessions
    /\ UNCHANGED <<now, ticks, idempotencyStore, activeBrowsers, lastResp, nreq,
                   submits, expiredStatus, apiLog, rateVars, gateVars, formVars, envVars, keyCalls, isShuttingDown,
                   closing>>

\* Variant: closeAllBrowsers closes nothing.
closeAllTargets_none(registered) == {}

\* Array.from(activeBrowsers): the sessions closeAllBrowsers closes.
closeAllTargets(registered) == registered

\* SIGTERM / SIGINT: gracefulShutdown up to its await. The flag is set and
\* closeAllBrowsers calls browser.close() on every registered session.
GracefulShutdown ==
    /\ ~isShuttingDown
    /\ isShuttingDown' = TRUE
    /\ closing' = closeAllTargets(activeBrowsers)
    /\ UNCHANGED <<now, ticks, idempotencyStore, jobs, activeBrowsers, lastResp,
                   nreq, submits, expiredStatus, apiLog, rateVars, gateVars, formVars, envVars, keyCalls, closeErrors,
                   sessions>>

\* One browser.close() of closeAllBrowsers settles: the closed browser
\* disconnects and its 'disconnected' handler deregisters it, or the
\* rejection is caught and logged.
CloseAllSettles(b) ==
    /\ b \in closing
    /\ closing' = closing \ {b}
    /\ \E ok \in BOOLEAN :
          IF ok
          THEN /\ activeBrowsers' = activeBrowsers \ {b}
               /\ sessions' = Closed(sessions, b)
               /\ UNCHANGED closeErrors
          ELSE /\ closeErrors' = closeErrors \cup {catchesCloseError("closeAllBrowsers")}
               /\ UNCHANGED <<activeBrowsers, sessions>>
    /\ UNCHANGED <<now, ticks, idempotencyStore, jobs, lastResp, nreq, submits,
                   expiredStatus, apiLog, rateVars, gateVars, formVars, envVars, keyCalls, isShuttingDown>>

\* setInterval(cleanup, CLEANUP_INTERVAL_MS) fires.
Cleanup ==
    /\ idempotencyStore' = cleanupStore(idempotencyStore, now)
    /\ expiredStatus' = NoteExpired(idempotencyStore, idempotencyStore', now)
    /\ UNCHANGED <<now, ticks, jobs, activeBrowsers, lastResp, nreq, submits,
                   apiLog, rateVars, gateVars, formVars, envVars, keyCalls, shutVars>>

\* Time passes.
Tick ==
    /\ ticks < MaxTicks
    /\ ticks' = ticks + 1
    /\ now' = now + TickMs
    /\ UNCHANGED <<idempotencyStore, jobs, activeBrowsers, lastResp, nreq,
                   submits, expiredStatus, apiLog, rateVars, gateVars, formVars, envVars, keyCalls, shutVars>>

Next ==
    \/ \E rfqId \in RfqIds, url \in Urls, isTestMode \in BOOLEAN,
          keepOpen \in BOOLEAN : Request(rfqId, url, isTestMode, keepOpen)
    \/ \E job \in jobs : LaunchBrowser(job)
    \/ \E job \in jobs : SetupPage(job)
    \/ \E job \in jobs : Goto(job)
    \/ \E job \in jobs : FillRfqForm(job)
    \/ \E job \in jobs : CaptureAndUploadScreenshot(job)
    \/ \E job \in jobs : FinalAction(job)
    \/ \E job \in jobs : CloseBrowser(job)
    \/ Cleanup
    \/ Tick

\* The service as long as no shutdown signal arrives.
Spec == Init /\ [][Next]_vars

\* A step of a handler invocation: one of its awaits settles.
JobStep ==
    \E job \in jobs :
        \/ LaunchBrowser(job)
        \/ SetupPage(job)
        \/ Goto(job)
        \/ FillRfqForm(job)
        \/ CaptureAndUploadScreenshot(job)
        \/ FinalAction(job)
        \/ CloseBrowser(job)

\* The service with the shutdown signal, within the TTL of its records.
NextShutdown ==
    \/ \E rfqId \in RfqIds, url \in Urls, isTestMode \in BOOLEAN,
          keepOpen \in BOOLEAN : Request(rfqId, url, isTestMode, keepOpen)
    \/ JobStep
    \/ ShutdownCheck
    \/ GracefulShutdown
    \/ \E b \in closing : CloseAllSettles(b)

SpecShutdown == Init /\ [][NextShutdown]_vars

\* The service behind its router, within one window of the limiter: every
\* request passes the middleware chain and the pre-checks; the limiter's
\* parameters and the storage configuration come from the environment.
InitGate ==
    /\ InitState
    /\ windowMs = RATE_LIMIT_WINDOW_MS
    /\ maxRequests \in LimitChoices
    /\ supabaseConfigured \in BOOLEAN
    /\ nodeEnv = "production"

NextGate ==
    \/ \E req \in GateRequests : Receive(req)
    \/ \E job \in jobs : LaunchBrowser(job)
    \/ \E job \in jobs : SetupPage(job)
    \/ \E job \in jobs : Goto(job)
    \/ \E job \in jobs : FillRfqForm(job)
    \/ \E job \in jobs : CaptureAndUploadScreenshot(job)
    \/ \E job \in jobs : FinalAction(job)
    \/ \E job \in jobs : CloseBrowser(job)
    \/ GracefulShutdown
    \/ \E b \in closing : CloseAllSettles(b)

\* The service receiving well-formed requests with every value of the
\* isTestMode flag, within the TTL of its records.
NextMode ==
    \/ \E req \in ModeRequests : Receive(req)
    \/ JobStep

SpecMode == Init /\ [][NextMode]_vars

SpecGate == InitGate /\ [][NextGate]_vars

\* The router alone: requests with every body arrive and no handler moves on.
NextValidation == \E req \in ValidationRequests : Receive(req)

SpecValidation == InitGate /\ [][NextValidation]_vars

\* The service started in any environment.
InitEnv ==
    /\ InitState
    /\ windowMs = RATE_LIMIT_WINDOW_MS
    /\ maxRequests = RATE_LIMIT_MAX_REQUESTS
    /\ supabaseConfigured = TRUE
    /\ nodeEnv \in NodeEnvs

SpecEnv == InitEnv /\ [][Next]_vars

\* The service when every awaited call settles: each wait of the handler
\* carries a timeout, so a pending await resolves or rejects, and a job ends
\* within minutes, long before the 24 h TTL of its record: no record expires
\* while its job runs.
NextLive ==
    \/ \E rfqId \in RfqIds, url \in Urls, isTestMode \in BOOLEAN,
          keepOpen \in BOOLEAN : Request(rfqId, url, isTestMode, keepOpen)
    \/ JobStep

SpecLive == Init /\ [][NextLive]_vars /\ WF_vars(JobStep)

TypeOK ==
    /\ now = ticks * TickMs
    /\ isShuttingDown \in BOOLEAN
    /\ \A k \in Keys : idempotencyStore[k] = NoRecord
                       \/ idempotencyStore[k].status \in Statuses
    /\ \A job \in jobs : job.attempt \in 0..NAV_ATTEMPTS
    /\ Cardinality(jobs) <= MaxJobs

(***************************************************************************)
(* The store called directly, as tests/idempotency.test.js calls it        *)
(***************************************************************************)
Logged(op, key, ret) ==
    LET e == [op |-> op, key |-> key, ret |-> ret, at |-> now]
    IN  apiLog' = IF Len(apiLog) < LogLen THEN Append(apiLog, e)
                  ELSE Append(Tail(apiLog), e)

StoreOnly == UNCHANGED <<now, ticks, jobs, activeBrowsers, lastResp, nreq,
                         submits, expiredStatus, rateVars, gateVars, formVars, envVars, keyCalls, shutVars>>

\* startProcessing(key)
ApiBegin(k) ==
    /\ idempotencyStore' = startStore(idempotencyStore, k, now)
    /\ Logged("begin", k, startProcessing(idempotencyStore, k, now))
    /\ StoreOnly

\* markCompleted(key, result)
ApiComplete(k) ==
    /\ idempotencyStore' = markCompleted(idempotencyStore, k, [success |-> TRUE])
    /\ Logged("complete", k, TRUE)
    /\ StoreOnly

\* markFailed(key, error)
ApiFail(k) ==
    /\ idempotencyStore' = markFailed(idempotencyStore, k, "Form submission failed")
    /\ Logged("fail", k, TRUE)
    /\ StoreOnly

\* removeKey(key)
ApiRemove(k) ==
    /\ idempotencyStore' = removeKey(idempotencyStore, k)
    /\ Logged("remove", k, TRUE)
    /\ StoreOnly

\* checkIdempotency(key)
ApiCheck(k) ==
    /\ idempotencyStore' = checkStore(idempotencyStore, k, now)
    /\ Logged("check", k, checkIdempotency(idempotencyStore, k, now) # NoRecord)
    /\ StoreOnly

NextStore ==
    \/ \E k \in Keys : ApiBegin(k)
    \/ \E k \in Keys : ApiComplete(k)
    \/ \E k \in Keys : ApiFail(k)
    \/ \E k \in Keys : ApiRemove(k)
    \/ \E k \in Keys : ApiCheck(k)
    \/ Cleanup
    \/ Tick

SpecStore == Init /\ [][NextStore]_vars

\* generateIdempotencyKey(rfqId, formUrl, isTestMode) is called, as
\* tests/idempotency.test.js calls it.
GenerateKey(rfqId, formUrl, isTestMode) ==
    /\ Cardinality(keyCalls) < MaxKeyCalls
    /\ keyCalls' = keyCalls \cup
          {[rfqId |-> rfqId, formUrl |-> formUrl, isTestMode |-> isTestMode,
            key |-> generateIdempotencyKey(rfqId, formUrl, isTestMode)]}
    /\ UNCHANGED <<now, ticks, idempotencyStore, jobs, activeBrowsers, lastResp,
                   nreq, submits, expiredStatus, apiLog, rateVars, shutVars,
                   gateVars, formVars, envVars>>

NextKey ==
    \E rfqId \in KeyRfqIds, formUrl \in KeyUrls, isTestMode \in BOOLEAN :
        GenerateKey(rfqId, formUrl, isTestMode)

SpecKey == Init /\ [][NextKey]_vars

(***************************************************************************)
(* The rate limiter called directly, as tests/unit/rate-limiter.test.js    *)
(* calls it: one limiter rateLimit(windowMs, maxRequests), several callers *)
(***************************************************************************)
\* One advance of Date.now() while the limiter is exercised: half a second,
\* so that a deadline is met exactly, missed by half a second, and passed.
RateTickMs == MsPerSecond \div 2

RateOnly == UNCHANGED <<idempotencyStore, jobs, activeBrowsers, lastResp, nreq,
                        submits, expiredStatus, apiLog, windowMs, maxRequests,
                        shutVars, gateVars, formVars, envVars, keyCalls>>

InitRate ==
    /\ InitState
    /\ supabaseConfigured = TRUE
    /\ nodeEnv = "production"
    /\ windowMs \in WindowChoices
    /\ maxRequests \in LimitChoices

\* One request passes through the middleware.
RateLimit(req) ==
    /\ Len(rateLog) < MaxRateRequests
    /\ LET key == rateKey(req)
           d == rateDecision(rateLimitStore, key, now, windowMs, maxRequests)
       IN  /\ rateLimitStore' = rateStore(rateLimitStore, key, now, windowMs, maxRequests)
           /\ rateShadow' = rateStore(rateShadow, key, now, windowMs, maxRequests)
           /\ rateLog' = Append(rateLog,
                  [key |-> key, at |-> now, admitted |-> d.admitted,
                   retryAfter |-> d.retryAfter,
                   header |-> IF d.admitted THEN "" ELSE ToString(d.retryAfter)])
    /\ UNCHANGED <<now, ticks>>
    /\ RateOnly

\* The setInterval callback of the module fires.
RateSweep ==
    /\ rateLimitStore' = sweepStore(rateLimitStore, now)
    /\ UNCHANGED <<now, ticks, rateShadow, rateLog>>
    /\ RateOnly

\* Time passes.
RateTick ==
    /\ ticks < MaxRateTicks
    /\ ticks' = ticks + 1
    /\ now' = now + RateTickMs
    /\ UNCHANGED <<rateLimitStore, rateShadow, rateLog>>
    /\ RateOnly

NextRate ==
    \/ \E req \in Clients : RateLimit(req)
    \/ RateSweep
    \/ RateTick

SpecRate == InitRate /\ [][NextRate]_vars

(***************************************************************************)
(* Properties                                                              *)
(***************************************************************************)
\* A job that has claimed its key and has not yet completed or failed it.
InFlight(job) == job.pc # "closeBrowser"

JobsOn(k) == {job \in jobs : InFlight(job) /\ job.key = k}

\* The record check() surfaces for a key in the current state.
Live(k) == checkIdempotency(idempotencyStore, k, now)

ProdKeys == {generateIdempotencyKey(r, u, FALSE) : r \in RfqIds, u \in Urls}

\* C1: for every commit-mode key, as long as no record of that key has been
\* deleted by TTL expiry, at most one submitForm call has succeeded for it,
\* and once one has succeeded the record is completed and no job holds the
\* key (every later request was answered without running the pipeline).
C1_AtMostOneSubmit ==
    \A k \in ProdKeys :
        expiredStatus[k] = {} =>
            /\ submits[k] <= 1
            /\ submits[k] = 1 =>
                  /\ idempotencyStore[k] # NoRecord
                  /\ idempotencyStore[k].status = "completed"
                  /\ JobsOn(k) = {}

\* C1 witness: a second commit request on a key whose submit succeeded was
\* answered from the cache, the submit count still being one.
C1_Witness ==
    \E k \in ProdKeys :
        /\ submits[k] = 1
        /\ expiredStatus[k] = {}
        /\ lastResp.code = 200 /\ lastResp.cached /\ lastResp.key = k
        /\ lastResp.requestId = 2

\* C2 (as stated): under any interleaving, TTL expiry and sweeps included,
\* at most one job per key is between its successful begin() and its own
\* complete()/fail().
C2_AtMostOneJobPerKey == \A k \in Keys : Cardinality(JobsOn(k)) <= 1

\* C2 (amended): as long as no processing record of the key has been deleted
\* by TTL expiry, at most one job per key is between begin() and
\* complete()/fail(), and that job's record is the processing record.
C2_AtMostOneJobPerKeyUnlessExpired ==
    \A k \in Keys :
        "processing" \notin expiredStatus[k] =>
            /\ Cardinality(JobsOn(k)) <= 1
            /\ JobsOn(k) # {} =>
                  /\ idempotencyStore[k] # NoRecord
                  /\ idempotencyStore[k].status = "processing"

\* C2 witness: a request lost the race for a key that another job holds,
\* after time has passed but before the holder's record expired.
C2_Witness ==
    /\ lastResp.code = 409
    /\ Cardinality(JobsOn(lastResp.key)) = 1
    /\ ticks = 1
    /\ "processing" \notin expiredStatus[lastResp.key]

\* The key of a request and the record the handler's check returns for it.
ReqKey(r, u, m) == generateIdempotencyKey(r, u, m)

\* C3: a request whose key has a live processing record is answered at once
\* with 409 (existingStatus processing), starts no job and no browser, and
\* leaves the store as it is; and no request of any key changes or deletes a
\* live processing record.
C3_ProcessingIsConflict ==
    [][\A r \in RfqIds, u \in Urls, m \in BOOLEAN, ko \in BOOLEAN :
         Request(r, u, m, ko) =>
            /\ Live(ReqKey(r, u, m)).status = "processing" =>
                  /\ lastResp'.code = 409
                  /\ lastResp'.existingStatus = "processing"
                  /\ lastResp'.requestId = nreq'
                  /\ jobs' = jobs
                  /\ activeBrowsers' = activeBrowsers
                  /\ idempotencyStore' = idempotencyStore
            /\ \A k \in Keys :
                  Live(k).status = "processing" =>
                      idempotencyStore'[k] = idempotencyStore[k]
      ]_vars

\* C3 witness: the conflict has been answered and the record is still
\* processing, held by the job that created it.
C3_Witness ==
    /\ lastResp.code = 409
    /\ lastResp.existingStatus = "processing"
    /\ Live(lastResp.key).status = "processing"
    /\ \E job \in JobsOn(lastResp.key) : job.requestId < lastResp.requestId

\* C4: a commit-mode request that finds a live completed record gets a 200
\* response flagged cached carrying the stored result, starts no job and no
\* browser, and leaves the store as it is.
C4_CompletedCommitIsCached ==
    [][\A r \in RfqIds, u \in Urls, ko \in BOOLEAN :
         (Request(r, u, FALSE, ko)
            /\ Live(ReqKey(r, u, FALSE)).status = "completed") =>
            /\ lastResp'.code = 200
            /\ lastResp'.cached
            /\ lastResp'.success
            /\ lastResp'.finalAction = Live(ReqKey(r, u, FALSE)).result.finalAction
            /\ lastResp'.requestId = nreq'
            /\ jobs' = jobs
            /\ activeBrowsers' = activeBrowsers
            /\ idempotencyStore' = idempotencyStore
      ]_vars

\* C4 witness: a cached answer was given and the completed record is still
\* in the store.
C4_Witness ==
    /\ lastResp.code = 200 /\ lastResp.cached
    /\ lastResp.key \in ProdKeys
    /\ Live(lastResp.key).status = "completed"
    /\ Live(lastResp.key).result.requestId < lastResp.requestId

\* The record startProcessing writes at time t.
FreshRecord(t) ==
    [status |-> "processing", createdAt |-> t, result |-> NoResult, error |-> ""]

\* C5: a request that finds a live completed record under non-commit mode, or
\* a live failed record under either mode, replaces it by a fresh processing
\* record and starts the pipeline (a new job awaiting launchBrowser); it is
\* answered neither from the cache nor with a conflict.
C5_RetryRunsAgain ==
    [][\A r \in RfqIds, u \in Urls, m \in BOOLEAN, ko \in BOOLEAN :
         (Request(r, u, m, ko)
            /\ \/ Live(ReqKey(r, u, m)).status = "failed"
               \/ (Live(ReqKey(r, u, m)).status = "completed" /\ m)) =>
            /\ idempotencyStore'[ReqKey(r, u, m)] = FreshRecord(now)
            /\ jobs' = jobs \cup {NewJob(nreq', ReqKey(r, u, m), m, ko)}
            /\ NewJob(nreq', ReqKey(r, u, m), m, ko) \notin jobs
            /\ lastResp' = lastResp
      ]_vars

\* C5 witness: a non-commit job ended with its key completed (cancel as
\* final action) and an identical later request holds the key again.
C5_Witness ==
    /\ lastResp.code = 200 /\ lastResp.finalAction = "FORM_CANCELLED"
    /\ ticks = 0
    /\ \E job \in JobsOn(lastResp.key) :
          /\ job.requestId > lastResp.requestId
          /\ job.isTestMode
    /\ idempotencyStore[lastResp.key] = FreshRecord(now)

\* The texts of the errors the catch block handles.
NavExhausted == {ErrNav(NavFailure(i)) : i \in 1..NAV_ATTEMPTS} \cup {ErrNav("")}

FatalErrors == {ErrLaunch, ErrSetup, ErrFill, ErrShot} \cup NavExhausted

\* The step ends the pipeline of job with the failure response of an
\* exception (the catch block has run).
FailsFatally(job) ==
    /\ job \in jobs /\ InFlight(job) /\ job \notin jobs'
    /\ lastResp'.requestId = job.requestId
    /\ lastResp'.code = 500
    /\ lastResp'.error \in FatalErrors

SubmitFails(job) ==
    /\ job \in jobs /\ job.pc = "finalAction" /\ job \notin jobs'
    /\ ~job.isTestMode
    /\ lastResp'.requestId = job.requestId
    /\ lastResp'.finalAction = "FORM_SUBMISSION_FAILED"

\* A request on a key whose live record is failed is admitted and claims
\* the key again.
FailedIsRetried ==
    \A r \in RfqIds, u \in Urls, ko \in BOOLEAN :
        (Request(r, u, FALSE, ko) /\ Live(ReqKey(r, u, FALSE)).status = "failed") =>
            /\ idempotencyStore'[ReqKey(r, u, FALSE)] = FreshRecord(now)
            /\ NewJob(nreq', ReqKey(r, u, FALSE), FALSE, ko) \in jobs' \ jobs
            /\ lastResp' = lastResp

Returns(job) ==
    /\ job \in jobs
    /\ \A j2 \in jobs' : j2.requestId # job.requestId

\* The browser part of C8: a handler whose launchBrowser returned a session
\* returns only after exactly one closeBrowser call on it, unless keepOpen,
\* and then after none.
ClosedOnceUnlessKeepOpen(job) ==
    /\ job.closeCalls <= 1
    /\ (Returns(job) /\ job.browser # NoBrowser) =>
          IF job.keepOpen
          THEN job.closeCalls = 0
          ELSE /\ job.pc = "closeBrowser"
               /\ job.closeCalls = 1
               /\ job.browser \notin activeBrowsers'

\* C8 (as stated): on every path on which launchBrowser returned a session,
\* closeBrowser is called on it exactly once before the handler finishes,
\* unless keepOpen; with keepOpen the record is still moved to completed or
\* failed and only the browser stays live.
C8_BrowserReleased ==
    [][\A job \in jobs :
         /\ ClosedOnceUnlessKeepOpen(job)
         /\ (Returns(job) /\ job.keepOpen) =>
               /\ idempotencyStore'[job.key] # NoRecord
               /\ idempotencyStore'[job.key].status \in {"completed", "failed"}
      ]_vars

\* C8 (amended): as C8, but with keepOpen the record is moved to completed or
\* failed unless TTL expiry has deleted it while the job ran.
C8_BrowserReleasedRecordIfPresent ==
    [][\A job \in jobs :
         /\ ClosedOnceUnlessKeepOpen(job)
         /\ (Returns(job) /\ job.keepOpen) =>
               IF idempotencyStore[job.key] # NoRecord
               THEN /\ idempotencyStore'[job.key] # NoRecord
                    /\ idempotencyStore'[job.key].status \in {"completed", "failed"}
               ELSE /\ expiredStatus[job.key] # {}
                    /\ idempotencyStore'[job.key] = NoRecord
      ]_vars

\* C8 witness: one job awaits the close of its session after a failure
\* (closeBrowser called once, session deregistered) while the session of an
\* earlier keepOpen job, whose record is completed, is still registered.
C8_Witness ==
    \E job \in jobs :
        /\ job.pc = "closeBrowser" /\ job.closeCalls = 1
        /\ job.browser \notin activeBrowsers
        /\ lastResp.requestId = job.requestId /\ lastResp.code = 500
        /\ \E k \in Keys :
              /\ idempotencyStore[k] # NoRecord
              /\ idempotencyStore[k].status = "completed"
              /\ idempotencyStore[k].result.requestId \in activeBrowsers

\* The key of the other mode for the same entity and target.
OtherKey(r, u, m) == generateIdempotencyKey(r, u, ~m)

\* C9: for the same (entity id, target URL) the keys of the two modes differ;
\* a request is answered with a conflict or from the cache only on account
\* of the record of its own key, and is admitted whenever its own key has no
\* live record; and no step of a request or of a job changes the record of
\* the other mode's key.
C9_ModesIndependent ==
    [][/\ \A r \in RfqIds, u \in Urls, m \in BOOLEAN, ko \in BOOLEAN :
            /\ ReqKey(r, u, m) # OtherKey(r, u, m)
            /\ Request(r, u, m, ko) =>
                 /\ idempotencyStore'[OtherKey(r, u, m)] = idempotencyStore[OtherKey(r, u, m)]
                 /\ Live(ReqKey(r, u, m)) = NoRecord =>
                       /\ NewJob(nreq', ReqKey(r, u, m), m, ko) \in jobs' \ jobs
                       /\ lastResp' = lastResp
                 /\ lastResp' # lastResp =>
                       Live(ReqKey(r, u, m)).status \in {"processing", "completed"}
       /\ \A job \in jobs :
            job \notin jobs' =>
               \A r \in RfqIds, u \in Urls :
                  job.key = ReqKey(r, u, job.isTestMode) =>
                     idempotencyStore'[OtherKey(r, u, job.isTestMode)]
                        = idempotencyStore[OtherKey(r, u, job.isTestMode)]
      ]_vars

\* C9 witness: a commit job holds its key while the non-commit key of the
\* same entity and target holds a record of an earlier request.
C9_Witness ==
    \E r \in RfqIds, u \in Urls :
        /\ idempotencyStore[ReqKey(r, u, TRUE)] # NoRecord
        /\ idempotencyStore[ReqKey(r, u, TRUE)].status \in {"processing", "completed", "failed"}
        /\ \E job \in JobsOn(ReqKey(r, u, FALSE)) : job.requestId = 2
        /\ ticks = 0

\* C10: two begin() calls in a row on the same key, the first returning
\* true, return true then false (the second within the TTL of the first);
\* begin() on a key without a record returns true; and after complete() or
\* fail() followed by remove() on a key, the next begin() on it returns true.
C10_BeginTwiceThenRemove ==
    /\ \A i \in 1..(Len(apiLog) - 1) :
          LET a == apiLog[i]
              b == apiLog[i + 1]
          IN  /\ (a.op = "begin" /\ a.ret /\ b.op = "begin" /\ b.key = a.key
                   /\ b.at - a.at <= IDEMPOTENCY_TTL_MS) => ~b.ret
              /\ (a.op = "remove" /\ b.op = "begin" /\ b.key = a.key) => b.ret
    /\ \A i \in 1..(Len(apiLog) - 2) :
          (/\ apiLog[i].op \in {"complete", "fail"}
           /\ apiLog[i + 1].op = "remove"
           /\ apiLog[i + 2].op = "begin"
           /\ apiLog[i + 1].key = apiLog[i].key
           /\ apiLog[i + 2].key = apiLog[i].key) => apiLog[i + 2].ret
    /\ (Len(apiLog) = 1 /\ apiLog[1].op = "begin") => apiLog[1].ret

\* C10 witness: fail(), remove() and a begin() that returned true, in a row
\* on one key, whose record is processing again.
C10_Witness ==
    /\ Len(apiLog) = 3
    /\ apiLog[1].op = "fail" /\ apiLog[2].op = "remove"
    /\ apiLog[3].op = "begin" /\ apiLog[3].ret
    /\ apiLog[2].key = apiLog[1].key /\ apiLog[3].key = apiLog[1].key
    /\ idempotencyStore[apiLog[3].key] = FreshRecord(now)
    /\ ticks = 1

\* The calls logged strictly between positions i and j leave the record that
\* the begin() at i created in place (no remove() and no later creation).
KeptBetween(i, j) ==
    \A m \in (i + 1)..(j - 1) :
        apiLog[m].key = apiLog[i].key =>
            /\ apiLog[m].op # "remove"
            /\ ~(apiLog[m].op = "begin" /\ apiLog[m].ret)

\* C11: a check() made more than the TTL after the begin() that created the
\* key's record reports the key absent, whether the record was since left
\* processing, completed or failed; the record is gone from the store after
\* that check, and a begin() that follows on the key returns true.
C11_ExpiredIsAbsent ==
    \A i \in 1..Len(apiLog) : \A j \in (i + 1)..Len(apiLog) :
        (/\ apiLog[i].op = "begin" /\ apiLog[i].ret
         /\ apiLog[j].op = "check" /\ apiLog[j].key = apiLog[i].key
         /\ apiLog[j].at - apiLog[i].at > IDEMPOTENCY_TTL_MS
         /\ KeptBetween(i, j)) =>
            /\ ~apiLog[j].ret
            /\ j = Len(apiLog) => idempotencyStore[apiLog[j].key] = NoRecord
            /\ (/\ j < Len(apiLog)
                /\ apiLog[j + 1].op = "begin"
                /\ apiLog[j + 1].key = apiLog[j].key) => apiLog[j + 1].ret

\* C11 witness: a record was created and completed, and the check() made two
\* TTLs later reported it absent and left the store without it.
C11_Witness ==
    /\ Len(apiLog) = 3
    /\ apiLog[1].op = "begin" /\ apiLog[1].ret
    /\ apiLog[2].op = "complete" /\ apiLog[2].key = apiLog[1].key
    /\ apiLog[3].op = "check" /\ apiLog[3].key = apiLog[1].key
    /\ apiLog[3].at - apiLog[1].at > IDEMPOTENCY_TTL_MS
    /\ ~apiLog[3].ret
    /\ idempotencyStore[apiLog[3].key] = NoRecord

\* The decisions logged for one caller, in order.
KeyLog(k) == SelectSeq(rateLog, LAMBDA e : e.key = k)

\* The time of the request that opened the window request i of L falls in:
\* the first request opens a window, and so does every request that arrives
\* after the deadline (start + windowMs) of the window before it has passed.
RECURSIVE WindowStart(_, _)
WindowStart(L, i) ==
    IF i = 1 THEN L[1].at
    ELSE LET p == WindowStart(L, i - 1)
         IN  IF L[i].at > p + windowMs THEN L[i].at ELSE p

\* The rank of request i among the requests of its window.
PositionInWindow(L, i) ==
    Cardinality({j \in 1..i : WindowStart(L, j) = WindowStart(L, i)})

\* C12: for each caller, in every window (opened by the caller's first
\* request, or by its first request after the deadline of the window before
\* has passed) the first maxRequests requests are admitted and every further
\* request of that window is rejected.
C12_ExactlyMaxPerWindow ==
    \A k \in RateKeys :
        LET L == KeyLog(k)
        IN  \A i \in 1..Len(L) :
                L[i].admitted <=> PositionInWindow(L, i) <= maxRequests

\* C12 witness: with a limit of two, one caller made two admitted requests
\* and a rejected one in its first window, and again two admitted requests
\* and a rejected one in the window opened after the first had elapsed.
C12_Witness ==
    \E k \in RateKeys :
        LET L == KeyLog(k)
        IN  /\ maxRequests = 2
            /\ Len(L) = 6
            /\ L[1].admitted /\ L[2].admitted /\ ~L[3].admitted
            /\ L[4].admitted /\ L[5].admitted /\ ~L[6].admitted
            /\ L[4].at > L[1].at + windowMs
            /\ L[3].at > L[1].at

\* C13: every rejection carries, in the body and as the text of the
\* Retry-After header, one and the same integer that is at least 1 and equals
\* the whole seconds (rounded up) from the request to the deadline of the
\* caller's window.
C13_RetryAfterPositive ==
    \A k \in RateKeys :
        LET L == KeyLog(k)
        IN  \A i \in 1..Len(L) :
                ~L[i].admitted =>
                    /\ L[i].retryAfter >= 1
                    /\ L[i].retryAfter =
                          CeilDiv(WindowStart(L, i) + windowMs - L[i].at, MsPerSecond)
                    /\ L[i].header = ToString(L[i].retryAfter)

\* C14: a request of one caller leaves the window record (counter and
\* deadline) of every other caller as it was, and with it the outcome a
\* request of that other caller would get.
C14_CallersIndependent ==
    [][\A req \in Clients :
         RateLimit(req) =>
            \A k \in RateKeys \ {rateKey(req)} :
                /\ rateLimitStore'[k] = rateLimitStore[k]
                /\ rateDecision(rateLimitStore', k, now', windowMs', maxRequests')
                      = rateDecision(rateLimitStore, k, now, windowMs, maxRequests)
      ]_vars

\* C14 witness: one caller has used up its window and was rejected; after
\* that another caller was admitted with a window of its own, and the first
\* caller's counter and deadline are those of its own requests.
C14_Witness ==
    \E k1 \in RateKeys, k2 \in RateKeys :
        /\ k1 # k2
        /\ Len(rateLog) >= 3
        /\ rateLog[Len(rateLog)].key = k2 /\ rateLog[Len(rateLog)].admitted
        /\ rateLog[Len(rateLog) - 1].key = k1 /\ ~rateLog[Len(rateLog) - 1].admitted
        /\ rateLimitStore[k1] # NoWindow /\ rateLimitStore[k2] # NoWindow
        /\ rateLimitStore[k1].count = maxRequests
        /\ rateLimitStore[k2].count = 1
        /\ rateLimitStore[k1].resetTime < rateLimitStore[k2].resetTime
        /\ now <= rateLimitStore[k1].resetTime

\* C15: whatever sweeps have run and whenever, a request of any caller made
\* now gets the outcome (admitted or rejected, and the retry-after value) it
\* would get had the sweep never run.
C15_SweepChangesNoDecision ==
    \A k \in RateKeys :
        rateDecision(rateLimitStore, k, now, windowMs, maxRequests)
            = rateDecision(rateShadow, k, now, windowMs, maxRequests)

\* C15 witness: the sweep has deleted the window of a caller that had used
\* up its limit and been rejected; without the sweep the record would still
\* be in the map.
C15_Witness ==
    \E k \in RateKeys :
        /\ rateLimitStore[k] = NoWindow
        /\ rateShadow[k] # NoWindow
        /\ rateShadow[k].count = maxRequests
        /\ now > rateShadow[k].resetTime
        /\ \E i \in 1..Len(rateLog) : rateLog[i].key = k /\ ~rateLog[i].admitted

\* C16: for every caller and every interval of length windowMs (it is enough
\* to start one at each request of the caller), at most maxRequests of the
\* caller's requests in the interval were admitted.
C16_SlidingWindow ==
    \A k \in RateKeys :
        LET L == KeyLog(k)
        IN  \A i \in 1..Len(L) :
                Cardinality({j \in 1..Len(L) :
                                /\ L[j].admitted
                                /\ L[i].at <= L[j].at
                                /\ L[j].at < L[i].at + windowMs}) <= maxRequests

\* The step is one by which the handler of job leaves the navigation loop.
LeavesGoto(job) ==
    /\ job \in jobs /\ job.pc = "goto"
    /\ \A j2 \in jobs' : j2.requestId = job.requestId => j2.pc # "goto"

\* C17: a job makes at most 3 navigation attempts; it enters the fill stage
\* after two failed navigations only with its third attempt, on the session
\* it launched, after exactly 2 page recreations (3 setupPage calls); and a
\* job leaves the loop with the navigation-exhausted failure only after its
\* third attempt failed, the response naming 3 attempts and the message of
\* that third failure, no page being recreated after it.
C17_NavigationRetry ==
    [][\A job \in jobs :
         /\ job.attempt <= 3
         /\ LeavesGoto(job) =>
               \A j2 \in jobs' :
                  (j2.requestId = job.requestId /\ j2.pc = "fillRfqForm") =>
                     /\ j2.browser = job.browser /\ j2.browser # NoBrowser
                     /\ j2.pages = j2.attempt
                     /\ job.lastError = NavFailure(2) =>
                           (j2.attempt = 3 /\ j2.pages = 1 + 2)
         /\ (/\ LeavesGoto(job)
             /\ lastResp'.requestId = job.requestId
             /\ lastResp' # lastResp
             /\ lastResp'.error \in NavExhausted) =>
               /\ job.attempt = 3
               /\ job.pages = 1 + 2
               /\ job.lastError = NavFailure(2)
               /\ lastResp'.code = 500
               /\ lastResp'.error = "Failed to navigate after 3 attempts: Nav failed (3)"
         /\ (/\ LeavesGoto(job)
             /\ job.attempt = 3
             /\ \A j2 \in jobs' : j2.requestId = job.requestId => j2.pc # "fillRfqForm") =>
               /\ lastResp'.requestId = job.requestId
               /\ lastResp'.error = "Failed to navigate after 3 attempts: Nav failed (3)"
      ]_vars

\* C17 witness: one job is at the fill stage after two failed navigations,
\* with its third attempt and third page, while the other job has failed with
\* navigation exhausted after three attempts.
C17_Witness ==
    /\ \E job \in jobs :
          /\ job.pc = "fillRfqForm"
          /\ job.attempt = 3 /\ job.pages = 3
          /\ job.lastError = NavFailure(2)
          /\ job.browser \in activeBrowsers
          /\ lastResp.requestId # job.requestId
    /\ lastResp.code = 500
    /\ lastResp.error = ErrNav(NavFailure(3))

\* C18: the shutdown flag, once set, stays set, and every request that
\* arrives while it is set is answered 503 without success, the idempotency
\* store, the set of running jobs and the browser registry staying as they
\* were (no record created, no job started, no browser launched for it).
C18_ShutdownRejects ==
    [][/\ isShuttingDown => isShuttingDown'
       /\ (isShuttingDown /\ nreq' # nreq) =>
             /\ lastResp'.code = 503
             /\ ~lastResp'.success
             /\ lastResp'.requestId = nreq'
             /\ idempotencyStore' = idempotencyStore
             /\ expiredStatus' = expiredStatus
             /\ jobs' = jobs
             /\ activeBrowsers' = activeBrowsers
      ]_vars

\* C18 witness: the second request arrived after the signal and got 503
\* while the job of the first request was still running; the store holds the
\* first job's record only.
C18_Witness ==
    /\ isShuttingDown
    /\ lastResp.code = 503 /\ lastResp.requestId = 2
    /\ \E job \in jobs : job.requestId = 1 /\ InFlight(job)
    /\ Cardinality({k \in Keys : idempotencyStore[k] # NoRecord}) = 1

\* The session of a running job that is still registered.
SessionInUse(job) ==
    /\ InFlight(job)
    /\ job.browser # NoBrowser
    /\ job.browser \in activeBrowsers

\* C19 (as stated): the shutdown path does not close the browser session
\* that a job admitted before the signal is using.
C19_ShutdownSparesSessionsInUse ==
    [][GracefulShutdown =>
          \A job \in jobs : SessionInUse(job) => job.browser \notin closing'
      ]_vars

\* C19 (amended): the shutdown path does not cancel a job admitted before
\* the signal: neither the signal nor the settling of its closes removes a
\* job, changes a job's position, its idempotency record or a response, and
\* after the signal a job still ends only through its own finalizer; but the
\* signal does call close on every registered session, the session a running
\* job is using included.
C19_ShutdownClosesSessionsNotJobs ==
    [][/\ GracefulShutdown =>
             /\ jobs' = jobs
             /\ idempotencyStore' = idempotencyStore
             /\ lastResp' = lastResp
             /\ \A job \in jobs : SessionInUse(job) => job.browser \in closing'
       /\ \A b \in closing :
             CloseAllSettles(b) =>
                /\ jobs' = jobs
                /\ idempotencyStore' = idempotencyStore
                /\ lastResp' = lastResp
       /\ isShuttingDown =>
             \A job \in jobs :
                Returns(job) =>
                   /\ job.pc = "closeBrowser" \/ ~closesBrowser(job.browser, job.keepOpen)
                   /\ job.pc # "closeBrowser" => lastResp'.requestId = job.requestId
      ]_vars

\* C19 witness: after the signal, the close that shutdown called on the
\* session of a job at the fill stage has gone through (the session is
\* deregistered) and the job is still running.
C19_Witness ==
    /\ isShuttingDown
    /\ \E job \in jobs :
          /\ job.pc = "fillRfqForm"
          /\ job.browser # NoBrowser
          /\ job.browser \notin activeBrowsers
          /\ job.browser \notin closing
          /\ idempotencyStore[job.key] # NoRecord
          /\ idempotencyStore[job.key].status = "processing"

\* C20: no error of browser.close() leaves closeBrowser or closeAllBrowsers;
\* from the moment closeBrowser is called on a job's session, and still
\* after its close has settled either way, the session is out of the
\* registry and the handler returns; closeAllBrowsers calls close on every
\* registered session, and a close that settles, failed or not, leaves the
\* other pending closes pending, to settle on their own.
C20_ClosingNeverThrows ==
    [][/\ \A e \in closeErrors' : ~e.rethrown
       /\ \A job \in jobs' : job.pc = "closeBrowser" => job.browser \notin activeBrowsers'
       /\ \A job \in jobs :
             CloseBrowser(job) =>
                /\ job.browser \notin activeBrowsers'
                /\ job \notin jobs'
       /\ GracefulShutdown => closing' = activeBrowsers
       /\ \A b \in closing : CloseAllSettles(b) => closing' = closing \ {b}
      ]_vars

\* C20 witness: closeAllBrowsers has resolved (nothing pending) although one
\* of its closes failed, leaving that session registered, and a job's
\* closeBrowser has met a failing close too, the handler having returned.
C20_Witness ==
    /\ isShuttingDown /\ closing = {}
    /\ jobs = {}
    /\ closeErrors = {[fn |-> "closeBrowser", rethrown |-> FALSE],
                      [fn |-> "closeAllBrowsers", rethrown |-> FALSE]}
    /\ activeBrowsers # {}

(***************************************************************************)
(* The form filler called directly, as tests/unit/services/                *)
(* form-filler.test.js calls it                                            *)
(***************************************************************************)
FormOnly == UNCHANGED <<now, ticks, idempotencyStore, jobs, activeBrowsers, lastResp,
                        nreq, submits, expiredStatus, apiLog, rateVars, shutVars,
                        gateVars, envVars, keyCalls>>

\* fillRfqForm(page, quoteDetails, requestId) is called: up to its first
\* helper call.
FillCall(q) ==
    /\ fillPc = Idle
    /\ quoteDetails' = q
    /\ fillPc' = IF Len(q.items) > 0 THEN loopFrom(q.items, 0)
                 ELSE AtPhase("supplier_comments")
    /\ UNCHANGED <<fillLog, submitCall>>
    /\ FormOnly

\* One helper call of the loop body settles.
FillField ==
    /\ fillPc.phase = "items"
    /\ LET i == fillPc.i
           item == quoteDetails.items[i + 1]
           call == fieldCall(item, i, fillPc.f)
           next == IF fillPc.f < ITEM_STEPS THEN AtField(i, fillPc.f + 1)
                   ELSE loopFrom(quoteDetails.items, i + 1)
       IN  IF touchesPage(call)
           THEN \E outcome \in FieldOutcomes :
                   /\ fillLog' = Append(fillLog, Access(call, i, outcome = "ok"))
                   /\ fillPc' = IF outcome = "ok" \/ helperCatches(outcome) THEN next
                                ELSE AtPhase("thrown")
           ELSE /\ fillPc' = next
                /\ UNCHANGED fillLog
    /\ UNCHANGED <<quoteDetails, submitCall>>
    /\ FormOnly

\* if (supplier_comments) await fillTextareaBySuffix(page, 'txtComments', ...)
FillSupplierComments ==
    /\ fillPc.phase = "supplier_comments"
    /\ LET call == Call("fillTextareaBySuffix", "txtComments", 0,
                        quoteDetails.supplier_comments)
       IN  IF touchesPage(call)
           THEN \E outcome \in FieldOutcomes :
                   /\ fillLog' = Append(fillLog, Access(call, -1, outcome = "ok"))
                   /\ fillPc' = IF outcome = "ok" \/ helperCatches(outcome)
                                THEN AtPhase("quote_prepared_by")
                                ELSE AtPhase("thrown")
           ELSE /\ fillPc' = AtPhase("quote_prepared_by")
                /\ UNCHANGED fillLog
    /\ UNCHANGED <<quoteDetails, submitCall>>
    /\ FormOnly

\* if (quote_prepared_by) await fillInputBySuffix(page, 'quotePreparedBy', ...)
FillPreparedBy ==
    /\ fillPc.phase = "quote_prepared_by"
    /\ LET call == Call("fillInputBySuffix", "quotePreparedBy", 0,
                        quoteDetails.quote_prepared_by)
       IN  IF touchesPage(call)
           THEN \E outcome \in FieldOutcomes :
                   /\ fillLog' = Append(fillLog, Access(call, -1, outcome = "ok"))
                   /\ fillPc' = IF outcome = "ok" \/ helperCatches(outcome)
                                THEN AtPhase("delay")
                                ELSE AtPhase("thrown")
           ELSE /\ fillPc' = AtPhase("delay")
                /\ UNCHANGED fillLog
    /\ UNCHANGED <<quoteDetails, submitCall>>
    /\ FormOnly

\* await delay(2000) is over: fillRfqForm returns.
FillReturn ==
    /\ fillPc.phase = "delay"
    /\ fillPc' = AtPhase("returned")
    /\ UNCHANGED <<quoteDetails, fillLog, submitCall>>
    /\ FormOnly

\* What page.evaluate does inside submitForm on a page with these buttons:
\* it rejects, or its callback runs.
evaluations(buttons) ==
    {"throws", IF submitBtn(buttons) # NoButton THEN "clicked" ELSE "noButton"}

\* submitForm(page, requestId) is called on the filled form, whose buttons
\* are these, and returns.
SubmitFormOn(buttons) ==
    /\ fillPc.phase = "returned"
    /\ submitCall = NoSubmit
    /\ \E evaluate \in evaluations(buttons) :
          \E error \in IF evaluate = "throws" THEN SubmitErrors ELSE {NoError} :
             \E navigation \in IF evaluate = "clicked" THEN SubmitNavigations ELSE {""} :
                submitCall' =
                    [SubmitCall(evaluate, error, navigation,
                                submitForm(evaluate, error, navigation))
                     EXCEPT !.buttons = buttons,
                            !.clicked = IF evaluate = "clicked"
                                        THEN submitBtn(buttons) ELSE NoButton]
    /\ UNCHANGED <<quoteDetails, fillPc, fillLog>>
    /\ FormOnly

\* The form with its submit button, and a page without any button.
FormPages == {<<Button("Submit Quote", "submit")>>, <<>>}

\* submitForm(page, requestId) is called on the filled form and returns.
SubmitForm == \E buttons \in FormPages : SubmitFormOn(buttons)

NextForm ==
    \/ fillPc = Idle /\ \E q \in QuoteInputs : FillCall(q)
    \/ FillField
    \/ FillSupplierComments
    \/ FillPreparedBy
    \/ FillReturn
    \/ SubmitForm

SpecForm == Init /\ [][NextForm]_vars

\* submitForm on every page considered, after the fill of an empty quote.
NextSubmit ==
    \/ FillCall(NoQuote)
    \/ FillSupplierComments
    \/ FillPreparedBy
    \/ FillReturn
    \/ \E buttons \in Pages : SubmitFormOn(buttons)

SpecSubmit == Init /\ [][NextSubmit]_vars

(***************************************************************************)
(* C21: a request rejected before the claim leaves no trace                *)
(***************************************************************************)
\* The limiter has no room left for the caller of req.
LimiterFull(req) ==
    LET w == rateLimitStore[rateKey(req)]
    IN  w # NoWindow /\ now <= w.resetTime /\ w.count >= maxRequests

\* The body's URL is absent, unparsable or neither http nor https.
UrlViolation(body) ==
    \/ body.rfq_details.type = "undefined"
    \/ Falsy(body.rfq_details.quote_submission_url)
    \/ urlProtocol(body.rfq_details.quote_submission_url.str) \notin {"http:", "https:"}

\* The body's quote details are absent, or their items are no array.
QuoteViolation(body) ==
    \/ body.quote_details.type = "undefined"
    \/ body.quote_details.items.type \notin {"undefined", "array"}

\* The j-th item (counting from 1) has a condition code that is no string,
\* is blank, or is none of the valid codes in any letter case.
ItemViolation(body, j) ==
    /\ body.quote_details.type = "object"
    /\ body.quote_details.items.type = "array"
    /\ j \in 1..Len(body.quote_details.items.elems)
    /\ LET c == body.quote_details.items.elems[j].conditionCode
       IN  /\ c.type # "undefined"
           /\ \/ c.type # "string"
              \/ c.str \in {"", "  "}
              \/ c.str \notin {"NE", "ne", "NS", "OH", "SV", "AR"}

InvalidBody(body) ==
    \/ UrlViolation(body)
    \/ QuoteViolation(body)
    \/ \E j \in 1..MaxItems : ItemViolation(body, j)

\* C21: whenever a request arrives while the caller's rate limit is used up,
\* the service is shutting down or the evidence storage is not configured,
\* or arrives without the X-RFQ-ID header or with an invalid body, and
\* whenever a request is answered before the idempotency check, the answer
\* is a 400, 429 or 503, no handler invocation is started (so no browser is
\* launched for it), no browser session is registered, and the idempotency
\* store is left exactly as it was.
C21_RejectedLeavesNoTrace ==
    [][nreq' = nreq + 1 =>
         LET req == gateReq'
             mustReject == \/ LimiterFull(req)
                           \/ isShuttingDown
                           \/ ~supabaseConfigured
                           \/ req.xRfqId = ""
                           \/ InvalidBody(req.body)
         IN  (mustReject \/ gateResp' # NoGateResp) =>
                 /\ gateResp'.status \in {400, 429, 503}
                 /\ UNCHANGED <<idempotencyStore, jobs, activeBrowsers>>]_vars

\* A request without the X-RFQ-ID header has been rejected while a handler
\* invocation holds a processing record and a launched browser.
C21_Witness ==
    /\ gateResp.status = 400
    /\ gateReq.xRfqId = ""
    /\ \E job \in jobs :
          /\ job.browser \in activeBrowsers
          /\ idempotencyStore[job.key] # NoRecord
          /\ idempotencyStore[job.key].status = "processing"

(***************************************************************************)
(* C22: a validation failure enumerates the violated constraints           *)
(***************************************************************************)
HeaderErrorText == "X-RFQ-ID header is required for screenshot uploads"

UrlErrorTexts ==
    {"rfq_details is required",
     "rfq_details.quote_submission_url is required",
     "rfq_details.quote_submission_url must be a valid URL",
     "rfq_details.quote_submission_url must use http or https protocol"}

QuoteErrorTexts == {"quote_details is required", "quote_details.items must be an array"}

ItemErrorTexts ==
    {"quote_details.items[index].conditionCode must be a non-empty string",
     "quote_details.items[index].conditionCode must be one of: NE, NS, OH, SV, AR"}

\* The response names the missing header, the URL, the quote details, the
\* j-th item.
ReportsHeader(resp) ==
    \/ resp.error = HeaderErrorText
    \/ \E i \in DOMAIN resp.errors : resp.errors[i].text = HeaderErrorText

ReportsUrl(resp) == \E i \in DOMAIN resp.errors : resp.errors[i].text \in UrlErrorTexts

ReportsQuote(resp) == \E i \in DOMAIN resp.errors : resp.errors[i].text \in QuoteErrorTexts

ReportsItem(resp, j) ==
    \E i \in DOMAIN resp.errors :
        /\ resp.errors[i].text \in ItemErrorTexts
        /\ resp.errors[i].index = j - 1

\* C22 as stated: every 400 response names every constraint its request
\* violates: the missing X-RFQ-ID header, the URL, the quote details and
\* each item with an invalid condition code, all in the one response.
C22_EnumeratesEveryViolation ==
    gateResp.status = 400 =>
        /\ gateReq.xRfqId = "" => ReportsHeader(gateResp)
        /\ UrlViolation(gateReq.body) => ReportsUrl(gateResp)
        /\ QuoteViolation(gateReq.body) => ReportsQuote(gateResp)
        /\ \A j \in 1..MaxItems :
              ItemViolation(gateReq.body, j) => ReportsItem(gateResp, j)

\* C22 amended: a 400 response to a request that carries the X-RFQ-ID header
\* names every constraint the body violates, and no other: the URL, the
\* quote details and each item with an invalid condition code, all in the
\* one response; a 400 response to a request without the header names the
\* header alone.
C22_EnumeratesBodyViolations ==
    gateResp.status = 400 =>
        IF gateReq.xRfqId = ""
        THEN /\ gateResp.error = HeaderErrorText
             /\ gateResp.errors = <<>>
        ELSE /\ gateResp.error = ""
             /\ UrlViolation(gateReq.body) <=> ReportsUrl(gateResp)
             /\ QuoteViolation(gateReq.body) <=> ReportsQuote(gateResp)
             /\ \A j \in 1..MaxItems :
                   ItemViolation(gateReq.body, j) <=> ReportsItem(gateResp, j)
             /\ Len(gateResp.errors) =
                   (IF UrlViolation(gateReq.body) THEN 1 ELSE 0)
                   + (IF QuoteViolation(gateReq.body) THEN 1 ELSE 0)
                   + Cardinality({j \in 1..MaxItems : ItemViolation(gateReq.body, j)})

\* A request with the header, a URL that does not parse and two items with
\* invalid condition codes has been answered with three errors.
C22_Witness ==
    /\ gateResp.status = 400
    /\ gateReq.xRfqId # ""
    /\ UrlViolation(gateReq.body)
    /\ ItemViolation(gateReq.body, 1)
    /\ ItemViolation(gateReq.body, 2)
    /\ Len(gateResp.errors) = 3

(***************************************************************************)
(* C28: every response carries the correlation identifier                  *)
(***************************************************************************)
\* The identifier the answer to req must carry: the caller's when the
\* request names one, a generated one otherwise.
Generated == {randomUUID(n) : n \in 1..MaxRequests}

CarriesId(req, header, requestId) ==
    LET carried == {header, requestId} \ {NoId}
    IN  /\ carried # {}
        /\ IF req.xRequestId # NoId THEN carried = {req.xRequestId}
           ELSE carried \subseteq Generated

\* C28: every response carries the correlation identifier, in its
\* X-Request-ID header or its body: the caller's own when the request
\* supplied one and a generated one otherwise.  This holds of the answers
\* sent before the idempotency check (rate-limit rejection, unavailable,
\* missing header, validation failure) and of the handler's answers
\* (conflict, cached, success, failure).
C28_EveryResponseCarriesId ==
    /\ gateResp # NoGateResp =>
          CarriesId(gateReq, gateResp.header, gateResp.requestId)
    /\ lastResp.code \in {200, 409, 500} =>
          lastResp.requestId \in SuppliedIds \cup Generated

(***************************************************************************)
(* C23..C25: what fillRfqForm writes                                       *)
(***************************************************************************)
\* The category of an item: its condition code, NE when it has none.
Category(item) == IF item.conditionCode = "" THEN "NE" ELSE item.conditionCode

\* The category whose fields end in the suffix.
SuffixCategory(suffix) ==
    IF suffix \in {"txtNEQty1", "ddlNETraceability1", "txtNEUnitMeasure1",
                   "txtNEPrice1", "rbOutrightNE1", "rbExchangeNE1", "txtNELead1",
                   "txtNEDate1", "txtNEMinQuantity1", "txtNEComments1"}
    THEN "NE"
    ELSE ""

\* The position of the item with index i among the items of its category
\* that are written, in arrival order.
RowOf(items, i) ==
    Cardinality({j \in 0..(i - 1) :
                    /\ ~items[j + 1].no_quote
                    /\ Category(items[j + 1]) = Category(items[i + 1])})

\* C23: every access made for a line item goes to a field of the item's own
\* category (NE when the item names none), at the row index equal to the
\* item's position among the written items of that category in arrival
\* order.
C23_WrittenToOwnCategoryRow ==
    \A k \in DOMAIN fillLog :
        fillLog[k].item >= 0 =>
            /\ SuffixCategory(fillLog[k].call.suffix)
                  = Category(quoteDetails.items[fillLog[k].item + 1])
            /\ fillLog[k].call.index = RowOf(quoteDetails.items, fillLog[k].item)

\* C24: no access to the page (write, select or click) is ever made for an
\* item flagged no_quote.
C24_ExcludedItemUntouched ==
    \A k \in DOMAIN fillLog :
        fillLog[k].item >= 0 => ~quoteDetails.items[fillLog[k].item + 1].no_quote

\* fillRfqForm has returned for two items, the first flagged no_quote with a
\* quantity to write, the second written.
C24_Witness ==
    /\ fillPc.phase = "returned"
    /\ Len(quoteDetails.items) = 2
    /\ quoteDetails.items[1].no_quote
    /\ quoteDetails.items[1].qty_available # ""
    /\ \E k \in DOMAIN fillLog : fillLog[k].item = 1 /\ fillLog[k].written

\* The number of field helpers that touch the page for an item that is not
\* skipped: one for each defined property and one for a known price type.
DefinedFields(item) ==
    Cardinality({p \in {"qty_available", "traceability", "uom", "price_usd",
                        "lead_time", "tag_date", "min_qty", "comments"} :
                    item[p] # ""})
    + (IF item.price_type \in {"EXCHANGE", "OUTRIGHT", "exchange", "outright"}
       THEN 1 ELSE 0)

RECURSIVE ExpectedAccesses(_, _)
ExpectedAccesses(items, n) ==
    IF n = 0 THEN 0
    ELSE ExpectedAccesses(items, n - 1)
         + (IF items[n].no_quote THEN 0 ELSE DefinedFields(items[n]))

\* C25: a wait timeout or an evaluation error on a field never ends
\* fillRfqForm with an exception, and when fillRfqForm has returned every
\* defined field of every item not flagged no_quote and both single fields
\* have been attempted, whatever failed before them.
C25_FieldFaultsAreSkipped ==
    /\ fillPc.phase # "thrown"
    /\ fillPc.phase = "returned" =>
          Len(fillLog) = ExpectedAccesses(quoteDetails.items, Len(quoteDetails.items))
                         + (IF quoteDetails.supplier_comments # "" THEN 1 ELSE 0)
                         + (IF quoteDetails.quote_prepared_by # "" THEN 1 ELSE 0)

\* fillRfqForm has returned although the first item's field failed; the
\* second item's field and the single fields were written after it.
C25_Witness ==
    /\ fillPc.phase = "returned"
    /\ Len(fillLog) >= 3
    /\ ~fillLog[1].written /\ fillLog[1].item = 0
    /\ \E k \in DOMAIN fillLog : fillLog[k].item = 1 /\ fillLog[k].written
    /\ fillLog[Len(fillLog)].item = -1 /\ fillLog[Len(fillLog)].written

(***************************************************************************)
(* C26: what submitForm returns                                            *)
(***************************************************************************)
\* C26: submitForm never throws, and it returns true exactly when
\* page.evaluate found and clicked a submit button or rejected because the
\* page's execution context was destroyed or its target closed; whatever
\* the wait for the navigation after a click does, the result stays true.
C26_SubmitResult ==
    submitCall # NoSubmit =>
        /\ ~submitCall.threw
        /\ submitCall.result <=>
              \/ submitCall.evaluate = "clicked"
              \/ /\ submitCall.evaluate = "throws"
                 /\ submitCall.error.kind \in {"contextDestroyed", "targetClosed"}

\* A submit button was clicked, the wait for navigation rejected, and
\* submitForm returned true.
C26_Witness ==
    /\ submitCall.evaluate = "clicked"
    /\ submitCall.navigation = "rejected"
    /\ submitCall.result

(***************************************************************************)
(* C27: security-relaxing launch flags                                     *)
(***************************************************************************)
\* C27: a browser is launched with a flag that relaxes certificate or
\* cross-origin checks only when NODE_ENV is "development"; with NODE_ENV
\* production, test, staging or unset none of these flags is passed.
C27_RelaxedOnlyInDevelopment ==
    launchArgs \cap SecurityRelaxingArgs # {} => nodeEnv = "development"

(***************************************************************************)
(* C29: no job waits without bound                                         *)
(***************************************************************************)
\* The handler of job sends its response in this step: it leaves the try
\* block for the finally block.
Responds(job) ==
    /\ job \in jobs
    /\ job.pc # "closeBrowser"
    /\ \A j2 \in jobs' : j2.requestId = job.requestId => j2.pc = "closeBrowser"

\* A handler invocation with this request id is running.
Running(id) == \E job \in jobs : job.requestId = id

SameRecord(k) ==
    /\ idempotencyStore[k] # NoRecord
    /\ idempotencyStore'[k] # NoRecord
    /\ idempotencyStore'[k].createdAt = idempotencyStore[k].createdAt

\* A record that has reached completed or failed is changed no more.
TerminalIsFinal(k) ==
    (SameRecord(k) /\ idempotencyStore[k].status \in {"completed", "failed"})
        => idempotencyStore'[k] = idempotencyStore[k]

\* A key without a record gets one only in the processing state: complete()
\* and fail() create nothing.
AbsentStaysAbsent(k) ==
    (idempotencyStore[k] = NoRecord /\ idempotencyStore'[k] # NoRecord)
        => idempotencyStore'[k].status = "processing"

\* A cached result only while completed, an error text only while failed.
PayloadMatchesStatus(k) ==
    idempotencyStore'[k] # NoRecord =>
        /\ idempotencyStore'[k].result # NoResult
              => idempotencyStore'[k].status = "completed"
        /\ idempotencyStore'[k].error # ""
              => idempotencyStore'[k].status = "failed"

\* C30: complete() and fail() change a record only while it is processing
\* and are no-ops on an absent key, a completed record never becomes failed
\* nor a failed one completed, and a record carries a cached result only
\* while completed and an error text only while failed.
C30_OneTerminalTransition ==
    [][\A k \in Keys :
          /\ TerminalIsFinal(k)
          /\ AbsentStaysAbsent(k)
          /\ PayloadMatchesStatus(k)]_vars

(***************************************************************************)
(* C31: evidence is captured once, between the fill and the final action   *)
(***************************************************************************)
\* The handler of job is past the navigation: it awaits the fill, the
\* evidence capture or the final action.
AtOrPastFill(job) ==
    job.pc \in {"fillRfqForm", "captureAndUploadScreenshot", "finalAction"}

\* The job as it stands after the step, if its handler is still running.
After(job) == {j2 \in jobs' : j2.requestId = job.requestId}

\* The capture is called in the step that ends the fill, once, and the final
\* action is called in the step in which the capture resolves.
CaptureBetweenFillAndFinal(job) ==
    /\ \A j2 \in After(job) :
          /\ j2.captures <= 1
          /\ (j2.captures # job.captures) =>
                /\ job.pc = "fillRfqForm" /\ job.captures = 0
                /\ j2.pc = "captureAndUploadScreenshot"
          /\ (j2.pc = "captureAndUploadScreenshot") =>
                /\ j2.captures = 1
                /\ job.pc \in {"fillRfqForm", "captureAndUploadScreenshot"}
          /\ (j2.pc = "finalAction" /\ job.pc # "finalAction") =>
                /\ job.pc = "captureAndUploadScreenshot"
                /\ j2.captures = 1 /\ j2.evidence
          /\ j2.evidence => j2.captures = 1
    /\ (job.pc = "finalAction") => (job.captures = 1 /\ job.evidence)

\* C31 as stated, on finite runs: every job that reached the fill stage has
\* called the capture exactly once by the time it responds, after the fill
\* and before the final action, and the final action runs only after a
\* successful capture.
C31_CapturedOnceInEveryFill ==
    [][\A job \in jobs :
          /\ CaptureBetweenFillAndFinal(job)
          /\ (AtOrPastFill(job) /\ Responds(job)) => job.captures = 1
      ]_vars

\* C31 amended: in every job whose fill returns, the capture is called
\* exactly once, in the step that ends the fill, and the final action is
\* called only when that capture has resolved; a job whose fill throws
\* responds with the failure and calls neither the capture nor the final
\* action.
C31_CapturedOnceAfterFill ==
    [][\A job \in jobs :
          /\ CaptureBetweenFillAndFinal(job)
          /\ (AtOrPastFill(job) /\ Responds(job)) =>
                IF job.pc = "fillRfqForm"
                THEN job.captures = 0 /\ lastResp'.code = 500
                                      /\ lastResp'.finalAction = ""
                ELSE job.captures = 1
      ]_vars

\* A commit job submitted the form with its evidence captured, and its
\* handler is closing the browser.
C31_Witness ==
    \E job \in jobs :
        /\ job.pc = "closeBrowser"
        /\ job.captures = 1 /\ job.evidence
        /\ ~job.isTestMode
        /\ lastResp.requestId = job.requestId
        /\ lastResp.finalAction = "FORM_SUBMITTED"

(***************************************************************************)
(* C32: the body of a cached duplicate                                     *)
(***************************************************************************)
\* The body without its cached flag.
WithoutCached(payload) ==
    [success |-> payload.success, message |-> payload.message,
     requestId |-> payload.requestId, finalAction |-> payload.finalAction,
     isTestMode |-> payload.isTestMode,
     screenshot_data |-> payload.screenshot_data]

\* The handler answers a request from the cache in this step.
AnswersFromCache == nreq' = nreq + 1 /\ lastResp'.cached

\* A successful job stores the payload it returns.
StoresWhatItReturns ==
    \A job \in jobs :
        (job.pc = "finalAction" /\ Responds(job) /\ lastResp'.code = 200
         /\ idempotencyStore[job.key] # NoRecord) =>
            idempotencyStore'[job.key].result = lastResp'.payload

\* C32: the body returned for a cached duplicate equals the payload the
\* original commit job returned and stored (same message, request id, final
\* action and evidence references), with only the cached flag added.
C32_CachedBodyIsStoredPayload ==
    [][/\ StoresWhatItReturns
       /\ AnswersFromCache =>
             /\ lastResp'.payload.cached
             /\ WithoutCached(lastResp'.payload) =
                   idempotencyStore[lastResp'.key].result
      ]_vars

(***************************************************************************)
(* C33: no session outlives the shutdown and the jobs' finalizers          *)
(***************************************************************************)
\* The shutdown signal has been handled (every browser.close() of
\* closeAllBrowsers has settled) and no handler is running any more.
ShutdownDrained == isShuttingDown /\ closing = {} /\ jobs = {}

\* C33: once the shutdown is handled and every in-flight job has run its
\* finalizer, no session launched without keepOpen is still open or still
\* registered, including one whose launch resolved after closeAllBrowsers
\* took its snapshot.
C33_NoSessionOutlivesShutdown ==
    ShutdownDrained =>
        \A s \in sessions :
            ~s.keepOpen => (~s.open /\ s.browser \notin activeBrowsers)

\* C33 amended: once the shutdown is handled and every in-flight job has run
\* its finalizer, no session launched without keepOpen is still registered,
\* and such a session is still open only if a browser.close() of its
\* handler's closeBrowser was rejected, which closeBrowser logs and ignores.
C33_NoSessionStaysRegistered ==
    ShutdownDrained =>
        \A s \in sessions :
            ~s.keepOpen =>
                /\ s.browser \notin activeBrowsers
                /\ s.open => catchesCloseError("closeBrowser") \in closeErrors

\* The shutdown is handled, no handler runs, no close was rejected, and a
\* session whose launch resolved during the shutdown has been closed.
C33_Witness ==
    /\ ShutdownDrained
    /\ closeErrors = {}
    /\ \E s \in sessions : s.duringShutdown /\ ~s.keepOpen /\ ~s.open

(***************************************************************************)
(* C34: no failure in the navigation loop before the third attempt         *)
(***************************************************************************)
\* C34: a job fails in the navigation loop only on its third attempt: an
\* error of page.close() or of setupPage between two attempts does not end
\* the job earlier.
C34_FailsOnlyAfterThreeAttempts ==
    [][\A job \in jobs :
          (job.pc = "goto" /\ Responds(job)) =>
              (lastResp'.code = 500 /\ job.attempt = NAV_ATTEMPTS)
      ]_vars

(***************************************************************************)
(* C35: the submit path never clicks a cancel action                       *)
(***************************************************************************)
\* The label suggests a submit or send action.
SuggestsSubmit(btn) ==
    \/ includes(toLowerCase(btn.text), "submit")
    \/ includes(toLowerCase(btn.text), "send")

\* The label contains a cancel token.
SaysCancel(btn) == includes(toLowerCase(btn.text), "cancel")

\* C35: the element submitForm clicks always has a label suggesting submit
\* or send and never a label containing a cancel token.
C35_ClicksSubmitNeverCancel ==
    submitCall.evaluate = "clicked" =>
        /\ SuggestsSubmit(submitCall.clicked)
        /\ ~SaysCancel(submitCall.clicked)

(***************************************************************************)
(* C36: only isTestMode === false selects the commit mode                  *)
(***************************************************************************)
\* The request received last did not set isTestMode to false.
NotSetToCommit == gateReq.body.isTestMode # Bool(FALSE)

\* The handler invocation of the request received last.
LatestJobs == {job \in jobs : job.requestId = nreq}

\* C36: a request that does not set isTestMode to exactly false is handled
\* in test mode: its key carries the test mode, its final action is the
\* cancel, and submitForm is not called for it.
C36_TestModeUnlessExactlyFalse ==
    [][\A job \in LatestJobs :
          NotSetToCommit =>
              /\ job.isTestMode
              /\ job.key = generateIdempotencyKey(<<gateReq.xRfqId>>,
                               <<gateReq.body.rfq_details.quote_submission_url.str>>,
                               TRUE)
              /\ (job.pc = "finalAction" /\ Responds(job)) =>
                    /\ lastResp'.finalAction = "FORM_CANCELLED"
                    /\ submits' = submits
      ]_vars

(***************************************************************************)
(* C37: key generation is collision-free                                   *)
(***************************************************************************)
\* Two calls were made with the same (rfqId, formUrl, isTestMode).
SameTriple(c1, c2) ==
    /\ c1.rfqId = c2.rfqId
    /\ c1.formUrl = c2.formUrl
    /\ c1.isTestMode = c2.isTestMode

\* C37: key generation is deterministic and collision-free: two triples
\* (rfqId, formUrl, mode) produce the same key only if they are the same
\* triple, and the same triple always produces the same key.
C37_KeysCollisionFree ==
    \A c1 \in keyCalls, c2 \in keyCalls :
        c1.key = c2.key <=> SameTriple(c1, c2)

(***************************************************************************)
(* C38: a timeout of the network-idle wait is ignored                      *)
(***************************************************************************)
\* C38: when the wait for network idle times out after page.goto resolved,
\* the attempt counts as successful: the handler goes on to the fill in that
\* step, on the same page and without another navigation attempt, and never
\* navigates again.
C38_IdleTimeoutIgnored ==
    [][\A job \in jobs : \A j2 \in After(job) :
          /\ (job.pc = "goto" /\ j2.networkIdle = "timeout") =>
                /\ j2.pc = "fillRfqForm"
                /\ j2.attempt = job.attempt
                /\ j2.pages = job.pages
                /\ j2.lastError = job.lastError
          /\ (job.networkIdle = "timeout") =>
                /\ job.pc \notin {"launchBrowser", "setupPage", "goto"}
                /\ j2.attempt = job.attempt /\ j2.pages = job.pages
      ]_vars

\* A job is filling the form after its first navigation, whose wait for
\* network idle timed out; only one page was ever created.
C38_Witness ==
    \E job \in jobs :
        /\ job.pc = "fillRfqForm"
        /\ job.networkIdle = "timeout"
        /\ job.attempt = 1 /\ job.pages = 1

\* ---------------------------------------------------------------------
\* C39  A rejected request leaves the caller's rate window as it was: the
\* step that answers 429 changes neither the count nor the deadline of the
\* caller's window, so the first moment after the deadline, at which the
\* caller is admitted again, is the same before and after the rejection.
Rejects(key) ==
    /\ Len(rateLog') = Len(rateLog) + 1
    /\ rateLog'[Len(rateLog')].key = key
    /\ ~rateLog'[Len(rateLog')].admitted

C39_RejectionKeepsWindow ==
    [][\A key \in RateKeys :
          Rejects(key) =>
              /\ rateLimitStore[key] # NoWindow
              /\ rateLimitStore'[key].count = rateLimitStore[key].count
              /\ rateLimitStore'[key].resetTime = rateLimitStore[key].resetTime
              /\ rateDecision(rateLimitStore', key,
                              rateLimitStore[key].resetTime + 1,
                              windowMs, maxRequests).admitted]_vars

\* A blocked caller was rejected twice at different times within one window
\* and the window still ends at the deadline set by its first request.
C39_Witness ==
    \E i, j \in DOMAIN rateLog :
        /\ i < j
        /\ rateLog[i].key = rateLog[j].key
        /\ ~rateLog[i].admitted /\ ~rateLog[j].admitted
        /\ rateLog[i].at < rateLog[j].at
        /\ \E a \in DOMAIN rateLog :
              /\ a < i /\ rateLog[a].key = rateLog[i].key /\ rateLog[a].admitted
              /\ rateLimitStore[rateLog[i].key] # NoWindow
              /\ rateLimitStore[rateLog[i].key].resetTime = rateLog[a].at + windowMs
              /\ \A b \in DOMAIN rateLog :
                    (b > a /\ rateLog[b].key = rateLog[a].key) => ~rateLog[b].admitted

\* ---------------------------------------------------------------------
\* C40  The handler checks the record, removes it where a retry is allowed
\* and claims the key in one step, so startProcessing never returns false
\* inside the handler: no request is answered with the conflict "Concurrent
\* request detected. Please retry.", and every request that is neither
\* rejected as being processed nor answered from the cache starts a job
\* that holds the key as processing.
RaceResponse == "Concurrent request detected. Please retry."

Handled == nreq' = nreq + 1 /\ idempotencyStore' # idempotencyStore

====
